---- MODULE Spec2Model ----
(***************************************************************************)
(* PsycheVoyage: the message pipeline (AnalyzeMessage -> GenerateResponse  *)
(* -> SendReply) and the wellness content manager's post_content, with the *)
(* external capabilities (model completion, persistence, retrieval, chat   *)
(* delivery) as nondeterministic outcomes of each call.                    *)
(*                                                                         *)
(* Conventions.  An Optional value is a tuple: None is << >>, a present    *)
(* value v is <<v>>.  A text (reply, content) is a tuple of one-character  *)
(* strings, so that str.strip() is computed.  A formatted message (an      *)
(* f-string) is the tuple of its parts.  A confidence is in tenths         *)
(* (1.0 is 10).  A Python dict is a function whose DOMAIN is its key set.  *)
(***************************************************************************)
EXTENDS Integers, Sequences, FiniteSets, TLC

VARIABLES
    pc,                 \* position of the one activity in progress
    schema,             \* Pipeline.pipeline_schema of the run in progress
    event,              \* task_context.event
    nodes,              \* task_context.nodes: node name -> that node's output
    visited,            \* the nodes whose process the pipeline has invoked, in order
    raised,             \* the exception surfaced to the caller of Pipeline.run
    calls,              \* every external call made, in order
    sleeps,             \* every time.sleep(d) made, in order
    attempt,            \* loop variable of the retry loop in progress
    retry_delay,        \* local retry_delay of the retry loop in progress
    last_error,         \* local last_error of the retry loop in progress
    args,               \* arguments of the post_content call in progress
    post_result,        \* PostResult returned by post_content
    env,                \* os.environ: DISCORD_BOT_TOKEN, WELLNESS_CHANNEL_ID
    manager_bot,        \* WellnessContentManager.discord_bot is not None
    DATABASE_AVAILABLE, \* module flag of wellness_content_manager
    mock_content_store, \* module list of wellness_content_manager
    wellness_table,     \* rows of the wellness_content table
    mock_content_id_counter, \* module counter of wellness_content_manager
    gen,                \* generated_content of the generate_and_post call in progress
    gp_result,          \* dict returned by generate_and_post
    previous_content,   \* previous_content of test_content_type_rotation
    next_content_type,  \* next_content_type of test_content_type_rotation
    discord_bot,        \* module global _discord_bot of services.discord_bot
    bots,               \* the DiscordBot instances constructed so far
    thread_pc,          \* position of each thread in get_discord_bot
    thread_args,        \* arguments of each thread's get_discord_bot call
    returned,           \* the instances get_discord_bot has returned
    creating_call,      \* per instance, the call that constructed it (history)
    message,            \* the message of the on_message call in progress
    msg_data,           \* msg_data, the EventSchema on_message built
    session,            \* main.session is not None
    on_ready_handler,   \* the module whose on_ready coroutine the client holds
    thread_starts,      \* bot_thread.start() calls made by send_message_sync
    running,            \* run_bot has started the connection
    gateway,            \* the Discord connection, as the client's events tell
    sender,             \* each thread's position in the sends it makes
    delivered,          \* per thread, how often its message reached the channel
    fetches             \* fetch_channel calls made

\* The variables of the wellness content flow and of its rotation test.
wellnessVars == <<mock_content_id_counter, gen, gp_result>>

rotationVars == <<previous_content, next_content_type>>

\* The variables of the Discord connection of the instance and of the
\* threads that send through it.
clientVars == <<on_ready_handler, thread_starts, running, gateway, sender,
                delivered, fetches>>

\* The variables of the get_discord_bot calls of several threads, and of the
\* instance they return.
botVars == <<discord_bot, bots, thread_pc, thread_args, returned,
             creating_call, clientVars>>

\* The variables of the chat boundary (main.py).
boundaryVars == <<message, msg_data, session>>

\* What the message pipeline and a direct post_content call leave alone.
otherVars == <<wellnessVars, rotationVars, botVars, boundaryVars>>

vars == <<pc, schema, event, nodes, visited, raised, calls, sleeps, attempt,
          retry_delay, last_error, args, post_result, env, manager_bot,
          DATABASE_AVAILABLE, mock_content_store, wellness_table, otherVars>>

-----------------------------------------------------------------------------
(* Values *)

None == << >>

Some(v) == <<v>>

\* analyze_message.py:147, the id the classification node treats as the bot's
\* own.  Ids are only compared, and are beyond TLC's 32-bit integers: they are
\* kept as their decimal text.
BotId == "1339861530430406657"

\* Any other author (the one of event_schema.py:107).
UserId == "988733900509548605"

AuthorIds == {BotId, UserId}

ChannelIds == {42, 7}

\* MessageIntent
MessageIntent ==
    {"platform and business info", "personal growth and creativity",
     "mindfulness", "breathwork", "hypnosis", "trauma and somatic therapy",
     "ignore"}

Confidences == {5, 10}

\* Texts a completion can return: empty, blank, padded and plain ones.
MaxTextLen == 2

Chars == {" ", "h"}

Texts == UNION {[1..n -> Chars] : n \in 0..MaxTextLen}

Whitespace == {" "}

\* What send_message_sync raises (discord_bot.py:148, 172, wrapped at 183-185).
SendErrors == {"Bot failed to start and become ready", "Channel not found"}

SendOutcomes == {"ok"} \cup SendErrors

NodeNames == {"AnalyzeMessage", "GenerateResponse", "SendReply"}

-----------------------------------------------------------------------------
(* Pure helpers *)

RECURSIVE lstrip(_)
lstrip(s) ==
    IF s # << >> /\ Head(s) \in Whitespace THEN lstrip(Tail(s)) ELSE s

RECURSIVE rstrip(_)
rstrip(s) ==
    IF s # << >> /\ s[Len(s)] \in Whitespace
    THEN rstrip(SubSeq(s, 1, Len(s) - 1))
    ELSE s

\* str.strip()
strip(s) == rstrip(lstrip(s))

\* Mutant: the assignment is lost.
Put_lost(d, k, v) == d

\* Mutant: the assignment replaces the dict.
Put_dropping(d, k, v) == [x \in {k} |-> v]

\* dict[k] = v
Put(d, k, v) == [x \in (DOMAIN d) \cup {k} |-> IF x = k THEN v ELSE d[x]]

EmptyDict == [x \in {} |-> None]

RECURSIVE SumSeq(_)
SumSeq(s) == IF s = << >> THEN 0 ELSE Head(s) + SumSeq(Tail(s))

\* One external call: who made it, of which kind ("db", "kb", "llm", "send"),
\* with which channel and text (a delivery call only), and how it ended ("ok"
\* or the error raised).
Call(by, kind, chan, text, result) ==
    [by |-> by, kind |-> kind, chan |-> chan, text |-> text, result |-> result]

CallsOf(by, kind) ==
    {i \in 1..Len(calls) : calls[i].by = by /\ calls[i].kind = kind}

\* The calls to DiscordBot.send_message_sync.
Sends == {i \in 1..Len(calls) : calls[i].kind = "send"}

-----------------------------------------------------------------------------
(* Pipeline schemas *)

\* Mutant: SendReply is connected before GenerateResponse.
MessagePipelineSchema_swapped ==
    [start |-> "AnalyzeMessage",
     connections |-> [n \in {"AnalyzeMessage", "GenerateResponse", "SendReply"} |->
        CASE n = "AnalyzeMessage" -> <<"SendReply">>
          [] n = "SendReply" -> <<"GenerateResponse">>
          [] n = "GenerateResponse" -> << >>]]

\* MessagePipeline.pipeline_schema
MessagePipelineSchema ==
    [start |-> "AnalyzeMessage",
     connections |-> [n \in NodeNames |->
        CASE n = "AnalyzeMessage" -> <<"GenerateResponse">>
          [] n = "GenerateResponse" -> <<"SendReply">>
          [] n = "SendReply" -> << >>]]

\* Schemas over the same three nodes that leave out an upstream node: the
\* misconfigurations in which a node is invoked without its upstream output.
MisconfiguredSchemas ==
    {[start |-> "GenerateResponse",
      connections |-> MessagePipelineSchema.connections],
     [start |-> "SendReply",
      connections |-> MessagePipelineSchema.connections],
     [start |-> "AnalyzeMessage",
      connections |-> [n \in NodeNames |->
         IF n = "AnalyzeMessage" THEN <<"SendReply">> ELSE << >>]]}

Schemas == {MessagePipelineSchema} \cup MisconfiguredSchemas

Events == [author_id : AuthorIds, channel_id : ChannelIds]

NoEvent == [author_id |-> "", channel_id |-> 0]

NoSchema == [start |-> "", connections |-> [n \in NodeNames |-> << >>]]

\* The threads of the process that may call get_discord_bot (the ones
\* constructing a SendReply node or a WellnessContentManager).
Threads == {"t1", "t2"}

NoBotArgs == [token |-> None, test_mode |-> FALSE]

NoMessage == [author_id |-> "", channel_id |-> 0, reference |-> FALSE]

\* A row of the wellness_content table (WellnessContent), without its id.
Row(content, content_type, channel_id, posted, posted_at, updated_at) ==
    [content |-> content, content_type |-> content_type,
     channel_id |-> channel_id, posted |-> posted, posted_at |-> posted_at,
     updated_at |-> updated_at]

NoArgs == [content |-> << >>, channel_id |-> None, content_id |-> None]

-----------------------------------------------------------------------------
(* Initial state: the modules are loaded, the nodes and the manager are      *)
(* constructed, no run and no call is in progress.                           *)

\* No thread is sending through the instance and no connection was started.
NoSender == [pc |-> "idle", attempt |-> 0, result |-> "none"]

NoConnection ==
    /\ thread_starts = 0
    /\ running = FALSE
    /\ gateway = "closed"
    /\ sender = [t \in Threads |-> NoSender]
    /\ delivered = [t \in Threads |-> 0]
    /\ fetches = 0

\* No run and no call is in progress.
Quiet ==
    /\ pc = "idle"
    /\ schema = NoSchema
    /\ event = NoEvent
    /\ nodes = EmptyDict
    /\ visited = << >>
    /\ raised = None
    /\ calls = << >>
    /\ sleeps = << >>
    /\ attempt = 0
    /\ retry_delay = 0
    /\ last_error = None
    /\ args = NoArgs
    /\ post_result = None
    /\ gen = None
    /\ gp_result = None
    /\ previous_content = << >>
    /\ next_content_type = None
    /\ thread_pc = [t \in Threads |-> "idle"]
    /\ thread_args = [t \in Threads |-> NoBotArgs]
    /\ message = NoMessage
    /\ msg_data = None
    /\ NoConnection

\* Quiet, and get_discord_bot has not been called: there is no instance.
Idle ==
    /\ Quiet
    /\ discord_bot = None
    /\ bots = EmptyDict
    /\ returned = {}
    /\ creating_call = EmptyDict
    /\ on_ready_handler = "setup_events"

\* os.environ and the manager built from it.  WellnessContentManager.__init__:
\* the bot is set only with a token, and stays None when get_discord_bot
\* raises.
Environment ==
    /\ env \in [DISCORD_BOT_TOKEN : BOOLEAN, WELLNESS_CHANNEL_ID : {None, Some("42")}]
    /\ manager_bot \in {b \in BOOLEAN : b => env.DISCORD_BOT_TOKEN}
    /\ DATABASE_AVAILABLE \in BOOLEAN

Init ==
    /\ Idle
    /\ Environment
    /\ session = FALSE
    /\ mock_content_store = << >>
    /\ mock_content_id_counter = 1
    /\ wellness_table \in
          {EmptyDict,
           [i \in {"1"} |-> Row(<<"h">>, "meditation tip", "42", FALSE, None, 1)]}

-----------------------------------------------------------------------------
(* Pipeline.run *)

\* The node after n: connections[0], or the end of the run.
NextNode(n) ==
    IF schema.connections[n] = << >> THEN "done" ELSE schema.connections[n][1]

\* run(event): a fresh TaskContext around the event, starting at the start
\* node.  The SendReply node exists only with a token (its __init__ raises).
Pipeline_run(sch, ev) ==
    /\ pc = "idle"
    /\ env.DISCORD_BOT_TOKEN
    /\ schema' = sch
    /\ event' = ev
    /\ nodes' = EmptyDict
    /\ visited' = << >>
    /\ raised' = None
    /\ pc' = sch.start
    /\ UNCHANGED <<calls, sleeps, attempt, retry_delay, last_error, args,
                   post_result, env, manager_bot, DATABASE_AVAILABLE,
                   mock_content_store, wellness_table>>
    /\ UNCHANGED otherVars

\* A node's process returned the context with its entry written.
Returned(n, entry) ==
    /\ nodes' = Put(nodes, n, entry)
    /\ pc' = NextNode(n)
    /\ raised' = raised

\* A node's process raised: the run is aborted and the error surfaced.
Raised(err) ==
    /\ nodes' = nodes
    /\ pc' = "aborted"
    /\ raised' = Some(err)

-----------------------------------------------------------------------------
(* AnalyzeMessage *)

\* Mutant: the bot's own messages are not recognised.
IsBotAuthor_never(author_id) == FALSE

\* analyze_message.py:147
IsBotAuthor(author_id) == author_id = BotId

\* analyze_message.py:148-153: the short-circuit response (confidence 1.0)
IgnoreResponse == [intent |-> "ignore", confidence |-> 10, escalate |-> FALSE]

\* Mutant: a failed completion is swallowed and the message ignored.
AnalyzeMessage_process_fallback ==
    /\ pc = "AnalyzeMessage"
    /\ visited' = Append(visited, "AnalyzeMessage")
    /\ \/ /\ IsBotAuthor(event.author_id)
          /\ calls' = calls
          /\ Returned("AnalyzeMessage",
                      [response_model |-> IgnoreResponse, usage |-> None])
       \/ /\ ~IsBotAuthor(event.author_id)
          /\ calls' = Append(calls, Call("AnalyzeMessage", "db", None, None,
                                         "history read failed"))
          /\ Raised("history read failed")
       \/ /\ ~IsBotAuthor(event.author_id)
          /\ calls' = calls \o <<Call("AnalyzeMessage", "db", None, None, "ok"),
                                 Call("AnalyzeMessage", "llm", None, None,
                                      "completion failed")>>
          /\ Returned("AnalyzeMessage",
                      [response_model |-> IgnoreResponse, usage |-> None])
       \/ /\ ~IsBotAuthor(event.author_id)
          /\ calls' = calls \o <<Call("AnalyzeMessage", "db", None, None, "ok"),
                                 Call("AnalyzeMessage", "llm", None, None, "ok")>>
          /\ \E i \in MessageIntent, c \in Confidences :
                Returned("AnalyzeMessage",
                         [response_model |->
                             [intent |-> i, confidence |-> c, escalate |-> FALSE],
                          usage |-> Some("usage")])
    /\ UNCHANGED <<schema, event, sleeps, attempt, retry_delay, last_error, args,
                   post_result, env, manager_bot, DATABASE_AVAILABLE,
                   mock_content_store, wellness_table>>
    /\ UNCHANGED otherVars

\* process: get_context, create_completion, write the entry.  A message of
\* the bot itself is classified without any external call; otherwise the
\* history is read and the completion requested, and either may raise.
AnalyzeMessage_process ==
    /\ pc = "AnalyzeMessage"
    /\ visited' = Append(visited, "AnalyzeMessage")
    /\ \/ /\ IsBotAuthor(event.author_id)
          /\ calls' = calls
          /\ Returned("AnalyzeMessage",
                      [response_model |-> IgnoreResponse, usage |-> None])
       \/ /\ ~IsBotAuthor(event.author_id)
          /\ calls' = Append(calls, Call("AnalyzeMessage", "db", None, None,
                                         "history read failed"))
          /\ Raised("history read failed")
       \/ /\ ~IsBotAuthor(event.author_id)
          /\ calls' = calls \o <<Call("AnalyzeMessage", "db", None, None, "ok"),
                                 Call("AnalyzeMessage", "llm", None, None,
                                      "completion failed")>>
          /\ Raised("completion failed")
       \/ /\ ~IsBotAuthor(event.author_id)
          /\ calls' = calls \o <<Call("AnalyzeMessage", "db", None, None, "ok"),
                                 Call("AnalyzeMessage", "llm", None, None, "ok")>>
          /\ \E i \in MessageIntent, c \in Confidences :
                Returned("AnalyzeMessage",
                         [response_model |->
                             [intent |-> i, confidence |-> c, escalate |-> FALSE],
                          usage |-> Some("usage")])
    /\ UNCHANGED <<schema, event, sleeps, attempt, retry_delay, last_error, args,
                   post_result, env, manager_bot, DATABASE_AVAILABLE,
                   mock_content_store, wellness_table>>
    /\ UNCHANGED otherVars

-----------------------------------------------------------------------------
(* GenerateResponse *)

\* process: get_context reads the AnalyzeMessage entry (a KeyError when it is
\* missing); create_completion reads the history, searches the knowledge
\* base and requests the completion, each of which may raise.
GenerateResponse_process ==
    /\ pc = "GenerateResponse"
    /\ visited' = Append(visited, "GenerateResponse")
    /\ \/ /\ "AnalyzeMessage" \notin DOMAIN nodes
          /\ calls' = calls
          /\ Raised("KeyError: 'AnalyzeMessage'")
       \/ /\ "AnalyzeMessage" \in DOMAIN nodes
          /\ calls' = Append(calls, Call("GenerateResponse", "db", None, None,
                                         "history read failed"))
          /\ Raised("history read failed")
       \/ /\ "AnalyzeMessage" \in DOMAIN nodes
          /\ calls' = calls \o <<Call("GenerateResponse", "db", None, None, "ok"),
                                 Call("GenerateResponse", "kb", None, None,
                                      "semantic search failed")>>
          /\ Raised("semantic search failed")
       \/ /\ "AnalyzeMessage" \in DOMAIN nodes
          /\ calls' = calls \o <<Call("GenerateResponse", "db", None, None, "ok"),
                                 Call("GenerateResponse", "kb", None, None, "ok"),
                                 Call("GenerateResponse", "llm", None, None,
                                      "completion failed")>>
          /\ Raised("completion failed")
       \/ /\ "AnalyzeMessage" \in DOMAIN nodes
          /\ calls' = calls \o <<Call("GenerateResponse", "db", None, None, "ok"),
                                 Call("GenerateResponse", "kb", None, None, "ok"),
                                 Call("GenerateResponse", "llm", None, None, "ok")>>
          /\ \E r \in Texts :
                Returned("GenerateResponse",
                         [response_model |-> [response |-> r],
                          rag_context |-> "rag_context",
                          usage |-> Some("usage")])
    /\ UNCHANGED <<schema, event, sleeps, attempt, retry_delay, last_error, args,
                   post_result, env, manager_bot, DATABASE_AVAILABLE,
                   mock_content_store, wellness_table>>
    /\ UNCHANGED otherVars

-----------------------------------------------------------------------------
(* SendReply *)

\* Mutant: one attempt too many.
SendReply_max_retries_plus_one == 3 + 1

\* send_reply.py:111
SendReply_max_retries == 3

\* send_reply.py:112
SendReply_retry_delay == 1

\* Mutant: the gate compares with the wrong label.
IsIgnore_wrong_label(intent) == intent = "IGNORE"

\* send_reply.py:69
IsIgnore(intent) == intent = "ignore"

\* Mutant: the whitespace test is missing.
IsEmptyResponse_no_strip(response) == response = << >>

\* send_reply.py:83: not response or not response.strip()
IsEmptyResponse(response) == response = << >> \/ strip(response) = << >>

\* send_reply.py:100: the node holds the bot its __init__ obtained (or raised)
SendReply_discord_bot == TRUE

\* Mutant: sleeps after the last attempt too.
SendReply_sleeps_after_every(a) == TRUE

\* send_reply.py:139
SendReply_sleeps_after(a) == a < SendReply_max_retries - 1

\* send_reply.py:142
SendReply_backoff(d) == d * 2

\* ResponseModel: success, error_message, channel_id, message_sent
ResponseModel(success, error_message, channel_id, message_sent) ==
    [response_model |->
        [success |-> success, error_message |-> error_message,
         channel_id |-> channel_id, message_sent |-> message_sent]]

\* Mutant: the success result leaves the channel out.
SendReply_success_no_channel(channel_id, response) ==
    [response_model |->
        [success |-> TRUE, error_message |-> None, channel_id |-> None,
         message_sent |-> Some(response)]]

\* send_reply.py:124-126
SendReply_success(channel_id, response) ==
    ResponseModel(TRUE, None, Some(channel_id), Some(response))

\* Mutant: the failed result carries no message.
SendReply_exhausted_silent(last) == None

\* send_reply.py:145
SendReply_exhausted(last) ==
    <<"Failed to send message after", SendReply_max_retries,
      "attempts. Last error:", last>>

\* Mutant: the caught error is not reported.
SendReply_caught_silent(e) == None

\* send_reply.py:155
SendReply_caught(e) == <<"Error in SendReply node:", e>>

SendReply_response == nodes["GenerateResponse"].response_model.response

\* What process does before the retry loop (send_reply.py:54-113, 154-162):
\* the result it records, or None when the loop is to be entered.
SendReply_before_loop ==
    IF "AnalyzeMessage" \notin DOMAIN nodes
    THEN Some(ResponseModel(FALSE,
            SendReply_caught("AnalyzeMessage node results not found in task context"),
            None, None))
    ELSE IF "GenerateResponse" \notin DOMAIN nodes
    THEN Some(ResponseModel(FALSE,
            SendReply_caught("GenerateResponse node results not found in task context"),
            None, None))
    ELSE IF IsIgnore(nodes["AnalyzeMessage"].response_model.intent)
    THEN Some(ResponseModel(TRUE, <<"Message ignored as per intent">>, None, None))
    ELSE IF IsEmptyResponse(SendReply_response)
    THEN Some(ResponseModel(FALSE, <<"Empty response received">>, None, None))
    ELSE IF ~SendReply_discord_bot
    THEN Some(ResponseModel(FALSE, <<"Discord bot not initialized">>, None, None))
    ELSE None

\* process up to the first delivery attempt.
SendReply_process ==
    /\ pc = "SendReply"
    /\ visited' = Append(visited, "SendReply")
    /\ \/ /\ SendReply_before_loop # None
          /\ Returned("SendReply", SendReply_before_loop[1])
          /\ UNCHANGED <<attempt, retry_delay, last_error>>
       \/ /\ SendReply_before_loop = None
          /\ pc' = "SendReply.retry"
          /\ attempt' = 0
          /\ retry_delay' = SendReply_retry_delay
          /\ last_error' = None
          /\ UNCHANGED <<nodes, raised>>
    /\ UNCHANGED <<schema, event, calls, sleeps, args, post_result, env,
                   manager_bot, DATABASE_AVAILABLE, mock_content_store,
                   wellness_table>>
    /\ UNCHANGED otherVars

\* One iteration of the retry loop (send_reply.py:115-142) and, after the
\* last failed one, the failed result (144-152).
SendReply_attempt ==
    /\ pc = "SendReply.retry"
    /\ \E out \in SendOutcomes :
        /\ calls' = Append(calls, Call("SendReply", "send", Some(event.channel_id),
                                       Some(SendReply_response), out))
        /\ \/ /\ out = "ok"
              /\ Returned("SendReply",
                          SendReply_success(event.channel_id, SendReply_response))
              /\ UNCHANGED <<attempt, retry_delay, last_error, sleeps>>
           \/ /\ out # "ok"
              /\ last_error' = Some(out)
              /\ attempt' = attempt + 1
              /\ IF SendReply_sleeps_after(attempt)
                 THEN /\ sleeps' = Append(sleeps, retry_delay)
                      /\ retry_delay' = SendReply_backoff(retry_delay)
                 ELSE UNCHANGED <<sleeps, retry_delay>>
              /\ IF attempt + 1 < SendReply_max_retries
                 THEN UNCHANGED <<pc, nodes, raised>>
                 ELSE Returned("SendReply",
                               ResponseModel(FALSE, SendReply_exhausted(out),
                                             None, None))
    /\ UNCHANGED <<schema, event, visited, args, post_result, env, manager_bot,
                   DATABASE_AVAILABLE, mock_content_store, wellness_table>>
    /\ UNCHANGED otherVars

-----------------------------------------------------------------------------
(* WellnessContentManager.post_content *)

\* wellness_content_manager.py:620
post_content_max_retries == 3

\* wellness_content_manager.py:621
post_content_retry_delay == 1

\* Channel ids as the manager holds them (strings); "general" is one that
\* int() rejects.
ChannelStrs == {"42", "general"}

ContentIds == {"1", "2"}

\* int(channel_id) succeeds
IsIntLiteral(c) == c \in {"42", "7", "0"}

\* int(channel_id)
int(c) == CASE c = "42" -> 42 [] c = "7" -> 7 [] c = "0" -> 0

\* wellness_content_manager.py:585: not content or not content.strip()
IsEmptyContent(content) == content = << >> \/ strip(content) = << >>

\* wellness_content_manager.py:653
post_content_sleeps_after(a) == a < post_content_max_retries - 1

\* Mutant: the delay is not doubled.
post_content_backoff_none(d) == d

\* wellness_content_manager.py:656
post_content_backoff(d) == d * 2

\* PostResult
PostResult(success, error_message, channel_id, content_id, posted_at) ==
    [success |-> success, error_message |-> error_message,
     channel_id |-> channel_id, content_id |-> content_id,
     posted_at |-> posted_at]

\* wellness_content_manager.py:659
post_content_exhausted(last) ==
    <<"Failed to send wellness content after", post_content_max_retries,
      "attempts. Last error:", last>>

\* channel_id or "unknown"
OrUnknown(channel_id) == IF channel_id = None THEN "unknown" ELSE channel_id[1]

\* wellness_content_manager.py:595-596: the parameter, else the environment
ResolvedChannel(channel_id) ==
    IF channel_id # None THEN channel_id ELSE env.WELLNESS_CHANNEL_ID

\* What post_content returns before the retry loop (583-617), or None when
\* the loop is to be entered.
post_content_before_loop(content, channel_id) ==
    IF IsEmptyContent(content)
    THEN Some(PostResult(FALSE, <<"Empty content received">>,
                         OrUnknown(channel_id), None, None))
    ELSE IF ResolvedChannel(channel_id) = None
    THEN Some(PostResult(FALSE,
            <<"Channel ID not found in parameters or environment variables">>,
            "unknown", None, None))
    ELSE IF ~manager_bot
    THEN Some(PostResult(FALSE, <<"Discord bot not initialized">>,
                         ResolvedChannel(channel_id)[1], None, None))
    ELSE None

\* post_content(content, channel_id, content_id) up to the first attempt.
\* (Nothing before the loop raises, so the except clause at 668-676 is not
\* entered.)
post_content_entry(content, channel_id, content_id) ==
    /\ args' = [content |-> content, channel_id |-> ResolvedChannel(channel_id),
                content_id |-> content_id]
    /\ \/ /\ post_content_before_loop(content, channel_id) # None
          /\ post_result' = post_content_before_loop(content, channel_id)
          /\ pc' = "post_content.done"
          /\ UNCHANGED <<attempt, retry_delay, last_error>>
       \/ /\ post_content_before_loop(content, channel_id) = None
          /\ post_result' = None
          /\ pc' = "post_content.retry"
          /\ attempt' = 0
          /\ retry_delay' = post_content_retry_delay
          /\ last_error' = None

\* A call of post_content by itself (the test script's test_post_content).
post_content(content, channel_id, content_id) ==
    /\ pc = "idle"
    /\ post_content_entry(content, channel_id, content_id)
    /\ UNCHANGED <<schema, event, nodes, visited, raised, calls, sleeps, env,
                   manager_bot, DATABASE_AVAILABLE, mock_content_store,
                   wellness_table>>
    /\ UNCHANGED otherVars

\* The list with the first item whose id is content_id marked (504-508, 551-555).
MarkMock(store, content_id, posted, posted_at) ==
    LET hits == {i \in 1..Len(store) : store[i].id = content_id} IN
    IF hits = {} THEN store
    ELSE LET first == CHOOSE i \in hits : \A j \in hits : i <= j IN
         [store EXCEPT ![first] =
            [@ EXCEPT !.posted = posted,
                      !.posted_at = IF posted /\ posted_at # None
                                    THEN posted_at ELSE @]]

\* The table with the row of that id updated (519-537).
MarkRow(table, content_id, posted, posted_at) ==
    IF content_id \notin DOMAIN table THEN table
    ELSE [table EXCEPT ![content_id] =
            [@ EXCEPT !.posted = posted,
                      !.posted_at = IF posted /\ posted_at # None
                                    THEN posted_at ELSE @]]

\* update_content_posted_status(content_id, posted, posted_at), db being how
\* the database session ends ("ok" or the error): the mock store when the
\* database modules are missing, the table otherwise, and the mock store
\* again when the session raises.
update_content_posted_status(content_id, posted, posted_at, db) ==
    /\ mock_content_store' =
          IF ~DATABASE_AVAILABLE \/ db # "ok"
          THEN MarkMock(mock_content_store, content_id, posted, posted_at)
          ELSE mock_content_store
    /\ wellness_table' =
          IF DATABASE_AVAILABLE /\ db = "ok"
          THEN MarkRow(wellness_table, content_id, posted, posted_at)
          ELSE wellness_table

\* Mutant: the record is marked although the attempt failed.
post_content_failed_marking(err) ==
    /\ last_error' = Some(err)
    /\ attempt' = attempt + 1
    /\ IF post_content_sleeps_after(attempt)
       THEN /\ sleeps' = Append(sleeps, retry_delay)
            /\ retry_delay' = post_content_backoff(retry_delay)
       ELSE UNCHANGED <<sleeps, retry_delay>>
    /\ IF attempt + 1 < post_content_max_retries
       THEN UNCHANGED <<pc, post_result>>
       ELSE /\ pc' = "post_content.done"
            /\ post_result' = Some(PostResult(FALSE, post_content_exhausted(err),
                                              args.channel_id[1],
                                              args.content_id, None))
    /\ IF args.content_id # None
       THEN update_content_posted_status(args.content_id[1], TRUE,
                                         Some("utcnow"), "ok")
       ELSE UNCHANGED <<mock_content_store, wellness_table>>

\* A failed iteration of the loop (648-656) and, after the last one, the
\* failed result (658-666).
post_content_failed(err) ==
    /\ last_error' = Some(err)
    /\ attempt' = attempt + 1
    /\ IF post_content_sleeps_after(attempt)
       THEN /\ sleeps' = Append(sleeps, retry_delay)
            /\ retry_delay' = post_content_backoff(retry_delay)
       ELSE UNCHANGED <<sleeps, retry_delay>>
    /\ IF attempt + 1 < post_content_max_retries
       THEN UNCHANGED <<pc, post_result>>
       ELSE /\ pc' = "post_content.done"
            /\ post_result' = Some(PostResult(FALSE, post_content_exhausted(err),
                                              args.channel_id[1],
                                              args.content_id, None))
    /\ UNCHANGED <<mock_content_store, wellness_table>>

\* One iteration of the retry loop (624-656).
post_content_attempt ==
    /\ pc = "post_content.retry"
    /\ \/ /\ ~IsIntLiteral(args.channel_id[1])
          /\ calls' = calls
          /\ post_content_failed("invalid literal for int()")
       \/ /\ IsIntLiteral(args.channel_id[1])
          /\ \E out \in SendErrors :
                /\ calls' = Append(calls,
                      Call("post_content", "send", Some(int(args.channel_id[1])),
                           Some(args.content), out))
                /\ post_content_failed(out)
       \/ /\ IsIntLiteral(args.channel_id[1])
          /\ \E db \in {"ok", "session failed"} :
                /\ calls' = calls \o
                      <<Call("post_content", "send", Some(int(args.channel_id[1])),
                             Some(args.content), "ok")>> \o
                      (IF args.content_id # None /\ DATABASE_AVAILABLE
                       THEN <<Call("post_content", "db", None, None, db)>>
                       ELSE << >>)
                /\ IF args.content_id # None
                   THEN update_content_posted_status(args.content_id[1], TRUE,
                                                     Some("utcnow"), db)
                   ELSE UNCHANGED <<mock_content_store, wellness_table>>
          /\ post_result' = Some(PostResult(TRUE, None, args.channel_id[1],
                                            args.content_id, Some("utcnow")))
          /\ pc' = "post_content.done"
          /\ UNCHANGED <<attempt, retry_delay, last_error, sleeps>>
    /\ UNCHANGED <<schema, event, nodes, visited, raised, args, env, manager_bot,
                   DATABASE_AVAILABLE>>
    /\ UNCHANGED otherVars

-----------------------------------------------------------------------------
(* WellnessContentManager: the history and the rotation of content types *)

\* ContentType, in declaration order
ContentType ==
    <<"meditation tip", "weekly challenge", "mindfulness practice",
      "emotional wellness", "somatic exercise", "breathwork technique",
      "sleep optimization", "gratitude practice", "boundary setting",
      "stress management">>

\* ContentType.MEDITATION_TIP
MEDITATION_TIP == "meditation tip"

\* [ct.value for ct in ContentType]
ContentTypeValues == {ContentType[i] : i \in DOMAIN ContentType}

\* A content_type string that is no member's value.
UnknownType == "journaling"

\* all_types.index(last_type), positions counted from 1
IndexOf(t) == CHOOSE i \in DOMAIN ContentType : ContentType[i] = t

\* Mutant: the rotation stops at the last type.
NextIndex_nowrap(i) == IF i < Len(ContentType) THEN i + 1 ELSE i

\* (current_index + 1) % len(all_types), positions counted from 1
NextIndex(i) == (i % Len(ContentType)) + 1

\* determine_content_type(previous_content): the items are (content,
\* content_type, updated_at)
determine_content_type(prev) ==
    IF prev = << >> THEN MEDITATION_TIP
    ELSE LET last_type_str == prev[1][2] IN
         IF last_type_str \in ContentTypeValues
         THEN ContentType[NextIndex(IndexOf(last_type_str))]
         ELSE MEDITATION_TIP

\* order_by(desc(updated_at)) over the rows ids
RECURSIVE ByRecency(_, _)
ByRecency(table, ids) ==
    IF ids = {} THEN << >>
    ELSE LET top == CHOOSE i \in ids :
                        \A j \in ids : table[j].updated_at <= table[i].updated_at
         IN  <<top>> \o ByRecency(table, ids \ {top})

\* (item.content, item.content_type, item.updated_at) of the rows q that
\* have content
Items(table, q) ==
    SelectSeq([k \in 1..Len(q) |->
                  <<table[q[k]].content, table[q[k]].content_type,
                    table[q[k]].updated_at>>],
              LAMBDA it : it[1] # << >>)

\* get_previous_content(channel_id) once the session is open: the posted
\* rows of the channel, most recent first, then the posted rows of any
\* channel that are not among them; second is how the second query ends, an
\* error leaving what the first one found.
get_previous_content(table, channel_id, second) ==
    LET own == {i \in DOMAIN table :
                    table[i].posted /\ Some(table[i].channel_id) = channel_id}
        any == {i \in DOMAIN table : table[i].posted}
        first == Items(table, ByRecency(table, own))
        rest == SelectSeq(Items(table, ByRecency(table, any)),
                          LAMBDA it : \A k \in 1..Len(first) : first[k] # it)
    IN  IF second = "ok" THEN first \o rest ELSE first

\* How a database session ends.
DbOutcomes == {"ok", "session failed"}

\* test_content_type_rotation of the test script: the history of the default
\* channel and the type that follows it.  Without the database modules
\* SessionLocal is not defined, and get_previous_content raises.
test_content_type_rotation ==
    /\ pc = "idle"
    /\ \/ /\ ~DATABASE_AVAILABLE
          /\ calls' = calls
          /\ raised' = Some("name 'SessionLocal' is not defined")
          /\ pc' = "rotation.raised"
          /\ UNCHANGED rotationVars
       \/ /\ DATABASE_AVAILABLE
          /\ calls' = Append(calls, Call("get_previous_content", "db", None, None,
                                         "session failed"))
          /\ raised' = Some("session failed")
          /\ pc' = "rotation.raised"
          /\ UNCHANGED rotationVars
       \/ /\ DATABASE_AVAILABLE
          /\ \E second \in DbOutcomes :
                /\ calls' = calls \o
                      <<Call("get_previous_content", "db", None, None, "ok"),
                        Call("get_previous_content", "db", None, None, second)>>
                /\ previous_content' =
                      get_previous_content(wellness_table,
                                           env.WELLNESS_CHANNEL_ID, second)
                /\ next_content_type' =
                      Some(determine_content_type(previous_content'))
          /\ raised' = raised
          /\ pc' = "rotation.done"
    /\ UNCHANGED <<schema, event, nodes, visited, sleeps, attempt, retry_delay,
                   last_error, args, post_result, env, manager_bot,
                   DATABASE_AVAILABLE, mock_content_store, wellness_table,
                   wellnessVars, botVars, boundaryVars>>

-----------------------------------------------------------------------------
(* WellnessContentManager.generate_and_post *)

\* Records the stores may hold in all (a run that would add one more is not
\* started).
MaxRecords == 2

\* str(wellness_content.id) of a row added to the table: the id column
\* counts the rows (none is ever deleted).
NewRowId(table) == ToString(Cardinality(DOMAIN table) + 1)

\* Contents a completion can return: empty and plain.
GeneratedTexts == {<< >>, <<"h">>}

\* prepare_context: channel_id, or os.getenv("WELLNESS_CHANNEL_ID", "0")
ContextChannel(channel_id) ==
    IF channel_id # None THEN channel_id[1]
    ELSE IF env.WELLNESS_CHANNEL_ID # None THEN env.WELLNESS_CHANNEL_ID[1]
    ELSE "0"

\* prepare_context: the content type asked for when it is a ContentType
\* value, else the one the rotation gives
SelectedContentType(content_type, prev) ==
    IF content_type # None /\ content_type[1] \in ContentTypeValues
    THEN content_type[1]
    ELSE determine_content_type(prev)

\* updated_at of a row written now: later than every row's.
Now(table) ==
    IF DOMAIN table = {} THEN 1
    ELSE 1 + (CHOOSE m \in {table[i].updated_at : i \in DOMAIN table} :
                \A i \in DOMAIN table : table[i].updated_at <= m)

\* The item store_content and store_content_mock append to the mock store.
MockItem(id, content, content_type, channel_id) ==
    [id |-> id, content |-> content, content_type |-> content_type,
     channel_id |-> channel_id, posted |-> FALSE, posted_at |-> None]

\* Mutant: the fallback does not keep the record.
store_content_mock_forgetful(content, content_type, channel_id) ==
    /\ mock_content_id_counter' = mock_content_id_counter + 1
    /\ mock_content_store' = mock_content_store
    /\ wellness_table' = wellness_table

\* store_content_mock, and the branch of store_content without the database
\* modules: the id is str(mock_content_id_counter).
store_content_mock(content, content_type, channel_id) ==
    /\ mock_content_id_counter' = mock_content_id_counter + 1
    /\ mock_content_store' =
          Append(mock_content_store,
                 MockItem(ToString(mock_content_id_counter), content,
                          content_type, channel_id))
    /\ wellness_table' = wellness_table

\* store_content, db being how the database session ends.
store_content(content, content_type, channel_id, db) ==
    IF ~DATABASE_AVAILABLE \/ db # "ok"
    THEN store_content_mock(content, content_type, channel_id)
    ELSE /\ wellness_table' =
               Put(wellness_table, NewRowId(wellness_table),
                   Row(content, content_type, channel_id, FALSE, None,
                       Now(wellness_table)))
         /\ UNCHANGED <<mock_content_store, mock_content_id_counter>>

\* The id store_content returns.
StoredId(db) ==
    IF ~DATABASE_AVAILABLE \/ db # "ok"
    THEN ToString(mock_content_id_counter) ELSE NewRowId(wellness_table)

\* GeneratedContent
GeneratedContent(content, content_type, channel_id, id) ==
    [content |-> content, content_type |-> content_type,
     channel_id |-> channel_id, id |-> id]

\* Mutant: the failure dict carries no message.
generate_and_post_failed_silent(e, channel_id) ==
    /\ gp_result' =
          Some([success |-> FALSE,
                error_message |-> None,
                channel_id |-> IF channel_id # None THEN channel_id[1]
                               ELSE IF env.WELLNESS_CHANNEL_ID # None
                               THEN env.WELLNESS_CHANNEL_ID[1]
                               ELSE "unknown"])
    /\ pc' = "generate_and_post.done"
    /\ UNCHANGED <<gen, args, post_result, attempt, retry_delay, last_error,
                   mock_content_store, wellness_table, mock_content_id_counter>>

\* generate_and_post, except clause: the failure dict.
generate_and_post_failed(e, channel_id) ==
    /\ gp_result' =
          Some([success |-> FALSE,
                error_message |-> <<"Error in generate_and_post:", e>>,
                channel_id |-> IF channel_id # None THEN channel_id[1]
                               ELSE IF env.WELLNESS_CHANNEL_ID # None
                               THEN env.WELLNESS_CHANNEL_ID[1]
                               ELSE "unknown"])
    /\ pc' = "generate_and_post.done"
    /\ UNCHANGED <<gen, args, post_result, attempt, retry_delay, last_error,
                   mock_content_store, wellness_table, mock_content_id_counter>>

\* The two queries of get_previous_content, the first having succeeded.
HistoryReads(second) ==
    <<Call("get_previous_content", "db", None, None, "ok"),
      Call("get_previous_content", "db", None, None, second)>>

\* generate_and_post(channel_id, content_type) up to the first delivery
\* attempt: generate_content (prepare_context with the history read, the
\* completion, store_content) and the start of post_content.  Whatever
\* raises ends in the except clause.
generate_and_post(channel_id, content_type) ==
    /\ pc = "idle"
    /\ Cardinality(DOMAIN wellness_table) + Len(mock_content_store) < MaxRecords
    /\ \/ /\ ~DATABASE_AVAILABLE
          /\ calls' = calls
          /\ gen' = gen
          /\ generate_and_post_failed(
                "name 'SessionLocal' is not defined", channel_id)
       \/ /\ DATABASE_AVAILABLE
          /\ calls' = Append(calls, Call("get_previous_content", "db", None, None,
                                         "session failed"))
          /\ gen' = gen
          /\ generate_and_post_failed("session failed", channel_id)
       \/ /\ DATABASE_AVAILABLE
          /\ \E second \in DbOutcomes :
                calls' = calls \o HistoryReads(second) \o
                    <<Call("generate_content", "llm", None, None,
                           "completion failed")>>
          /\ gen' = gen
          /\ generate_and_post_failed("completion failed", channel_id)
       \/ /\ DATABASE_AVAILABLE
          /\ \E second \in DbOutcomes, content \in GeneratedTexts,
                db \in DbOutcomes :
                LET ch == ContextChannel(channel_id)
                    type == SelectedContentType(content_type,
                                get_previous_content(wellness_table, Some(ch),
                                                     second))
                    id == StoredId(db)
                IN  /\ calls' = calls \o HistoryReads(second) \o
                          <<Call("generate_content", "llm", None, None, "ok"),
                            Call("store_content", "db", None, None, db)>>
                    /\ store_content(content, type, ch, db)
                    /\ gen' = Some(GeneratedContent(content, type, ch, id))
                    /\ post_content_entry(content, Some(ch), Some(id))
          /\ gp_result' = None
    /\ UNCHANGED <<schema, event, nodes, visited, raised, sleeps, env,
                   manager_bot, DATABASE_AVAILABLE, rotationVars, botVars,
                   boundaryVars>>

\* generate_and_post once post_content has returned: the combined dict.
generate_and_post_return ==
    /\ pc = "post_content.done"
    /\ gen # None
    /\ gp_result' =
          Some([success |-> post_result[1].success,
                content |-> gen[1].content,
                content_type |-> gen[1].content_type,
                channel_id |-> gen[1].channel_id,
                content_id |-> gen[1].id,
                posted_at |-> IF post_result[1].success
                              THEN post_result[1].posted_at ELSE None,
                error_message |-> post_result[1].error_message])
    /\ pc' = "generate_and_post.done"
    /\ UNCHANGED <<schema, event, nodes, visited, raised, calls, sleeps, attempt,
                   retry_delay, last_error, args, post_result, env, manager_bot,
                   DATABASE_AVAILABLE, mock_content_store, wellness_table,
                   mock_content_id_counter, gen, rotationVars, botVars,
                   boundaryVars>>

\* tasks/wellness_tasks.py, generate_and_post_wellness_content: a manager is
\* constructed (its __init__ catches what get_discord_bot raises) and
\* generate_and_post() is called with no argument; the task returns that
\* dict as it is (line 27).  Nothing in the try block raises, so the except
\* clause (28-32) is not entered.
generate_and_post_wellness_content == generate_and_post(None, None)

-----------------------------------------------------------------------------
(* services.discord_bot.get_discord_bot, called by several threads.  Each     *)
(* statement that reads or writes the module global is a step of its own.    *)

\* What a get_discord_bot step leaves alone.
pipelineVars ==
    <<pc, schema, event, nodes, visited, raised, calls, sleeps, attempt,
      retry_delay, last_error, args, post_result, env, manager_bot,
      DATABASE_AVAILABLE, mock_content_store, wellness_table, wellnessVars,
      rotationVars, boundaryVars, clientVars>>

\* DiscordBot.__init__: the fields of a new instance
DiscordBot(token) ==
    [token |-> token, is_ready |-> FALSE, is_connected |-> FALSE,
     test_mode |-> FALSE, ready_event |-> FALSE, connected_event |-> FALSE]

\* enable_test_mode
enable_test_mode(bot) ==
    [bot EXCEPT !.test_mode = TRUE, !.is_ready = TRUE, !.is_connected = TRUE,
                !.ready_event = TRUE, !.connected_event = TRUE]

\* A thread calls get_discord_bot(token, test_mode).
get_discord_bot(t, token, test_mode) ==
    /\ thread_pc[t] = "idle"
    /\ thread_args' = [thread_args EXCEPT ![t] =
                          [token |-> token, test_mode |-> test_mode]]
    /\ thread_pc' = [thread_pc EXCEPT ![t] = "check"]
    /\ UNCHANGED <<discord_bot, bots, returned, creating_call, pipelineVars>>

\* Mutant: a call that finds an instance applies its test_mode argument.
get_discord_bot_check_applying(t) ==
    /\ thread_pc[t] = "check"
    /\ thread_pc' = [thread_pc EXCEPT ![t] =
          IF discord_bot # None
          THEN (IF thread_args[t].test_mode THEN "enable_test_mode"
                ELSE "return")
          ELSE IF thread_args[t].token = None THEN "raised"
          ELSE "create"]
    /\ UNCHANGED <<discord_bot, bots, thread_args, returned, creating_call,
                   pipelineVars>>

\* if _discord_bot is None: ... if token is None: raise ValueError
get_discord_bot_check(t) ==
    /\ thread_pc[t] = "check"
    /\ thread_pc' = [thread_pc EXCEPT ![t] =
          IF discord_bot # None THEN "return"
          ELSE IF thread_args[t].token = None THEN "raised"
          ELSE "create"]
    /\ UNCHANGED <<discord_bot, bots, thread_args, returned, creating_call,
                   pipelineVars>>

\* _discord_bot = DiscordBot(command_prefix="!", token=token)
get_discord_bot_create(t) ==
    /\ thread_pc[t] = "create"
    /\ LET id == Cardinality(DOMAIN bots) + 1 IN
          /\ bots' = Put(bots, id, DiscordBot(thread_args[t].token[1]))
          /\ discord_bot' = Some(id)
          /\ creating_call' =
                Put(creating_call, id,
                    [thread |-> t, test_mode |-> thread_args[t].test_mode])
    /\ thread_pc' = [thread_pc EXCEPT ![t] =
          IF thread_args[t].test_mode THEN "enable_test_mode" ELSE "return"]
    /\ UNCHANGED <<thread_args, returned, pipelineVars>>

\* if test_mode: _discord_bot.enable_test_mode()
get_discord_bot_enable_test_mode(t) ==
    /\ thread_pc[t] = "enable_test_mode"
    /\ bots' = [bots EXCEPT ![discord_bot[1]] = enable_test_mode(@)]
    /\ thread_pc' = [thread_pc EXCEPT ![t] = "return"]
    /\ UNCHANGED <<discord_bot, thread_args, returned, creating_call,
                   pipelineVars>>

\* return _discord_bot
get_discord_bot_return(t) ==
    /\ thread_pc[t] = "return"
    /\ returned' = returned \cup {discord_bot[1]}
    /\ thread_pc' = [thread_pc EXCEPT ![t] = "returned"]
    /\ UNCHANGED <<discord_bot, bots, thread_args, creating_call,
                   pipelineVars>>

\* The caller has the instance, or the ValueError.
get_discord_bot_caller(t) ==
    /\ thread_pc[t] \in {"returned", "raised"}
    /\ thread_pc' = [thread_pc EXCEPT ![t] = "idle"]
    /\ thread_args' = [thread_args EXCEPT ![t] = NoBotArgs]
    /\ UNCHANGED <<discord_bot, bots, returned, creating_call, pipelineVars>>

-----------------------------------------------------------------------------
(* main.py: the chat boundary *)

\* The messages on_message is called with: author, channel, and whether
\* the message refers to another one.
Messages == [author_id : AuthorIds, channel_id : ChannelIds, reference : BOOLEAN]

\* The message a reference resolves to.
ReferencedMessage ==
    [id |-> "77", author_id |-> UserId, author_name |-> "user", content |-> <<"h">>]

\* How message.channel.fetch_message ends.
FetchOutcomes == {"ok", "NotFound", "Forbidden", "HTTPException", "TimeoutError"}

\* Mutant: a plain HTTP error is not caught.
FetchCaught_narrow(e) == e \in {"NotFound", "Forbidden"}

\* main.py:60-65: the errors on_message catches around fetch_message
FetchCaught(e) == e \in {"NotFound", "Forbidden", "HTTPException"}

\* How session.post ends: with a response of some status, or raising.
ApiStatuses == {"200", "201", "202", "500"}

ApiOutcomes == ApiStatuses \cup {"TimeoutError", "ClientError"}

\* response.status
Status(o) ==
    CASE o = "200" -> 200 [] o = "201" -> 201 [] o = "202" -> 202
      [] o = "500" -> 500

\* Mutant: only 200 is accepted.
IsAccepted_only_200(status) == status = 200

\* main.py:182-185: response.status in [200, 202]
IsAccepted(status) == status \in {200, 202}

\* How message.channel.send ends.
ChannelSendOutcomes == {"ok", "HTTPException"}

ApologyError == "Sorry, I encountered an error processing your message."

ApologyTimeout == "Sorry, the request timed out while processing your message."

ApologyUnexpected == "An unexpected error occurred while processing your message."

\* The referenced_message_* fields of EventSchema (main.py:165-175), with
\* the fields of the message that identify it.
EventSchema(m, referenced) ==
    [channel_id |-> m.channel_id,
     author_id |-> m.author_id,
     referenced_message_id |->
        IF referenced # None THEN Some(referenced[1].id) ELSE None,
     referenced_message_author_id |->
        IF referenced # None THEN Some(referenced[1].author_id) ELSE None,
     referenced_message_author_name |->
        IF referenced # None THEN Some(referenced[1].author_name) ELSE None,
     referenced_message_content |->
        IF referenced # None THEN Some(referenced[1].content) ELSE None]

\* await message.channel.send(text)
ChannelSend(m, text, out) ==
    Call("on_message", "channel.send", Some(m.channel_id), Some(text), out)

\* The apology the inner try sends for an outcome of session.post, if any
\* (main.py:182-199).
ApologyFor(api) ==
    IF api \in ApiStatuses
    THEN IF IsAccepted(Status(api)) THEN None ELSE Some(ApologyError)
    ELSE IF api = "TimeoutError" THEN Some(ApologyTimeout)
    ELSE Some(ApologyError)

\* main.py:41-45, on_ready: the aiohttp session is created.
on_ready ==
    /\ pc = "idle"
    /\ ~session
    /\ session' = TRUE
    /\ UNCHANGED <<pc, schema, event, nodes, visited, raised, calls, sleeps,
                   attempt, retry_delay, last_error, args, post_result, env,
                   manager_bot, DATABASE_AVAILABLE, mock_content_store,
                   wellness_table, wellnessVars, rotationVars, botVars,
                   message, msg_data>>

\* on_message(message): the referenced message is fetched, the event built
\* and posted to the API, and an apology sent when that fails; whatever
\* exception leaves the body is answered by the handler of last resort
\* (201-205), whose own send may raise out of on_message.  Without a
\* session (on_ready has not run) session.post raises an AttributeError.
on_message(m) ==
    /\ pc = "idle"
    /\ message' = m
    /\ \E fetch \in FetchOutcomes, api \in ApiOutcomes,
          s1 \in ChannelSendOutcomes, s2 \in ChannelSendOutcomes :
          LET fetched ==
                  IF m.reference
                  THEN <<Call("on_message", "fetch", Some(m.channel_id), None,
                              fetch)>>
                  ELSE << >>
              escaped == m.reference /\ fetch # "ok" /\ ~FetchCaught(fetch)
              referenced ==
                  IF m.reference /\ fetch = "ok"
                  THEN Some(ReferencedMessage) ELSE None
              data == EventSchema(m, referenced)
              posted == <<Call("on_message", "post", None, Some(data), api)>>
              inner ==
                  IF escaped
                  THEN [calls |-> fetched, data |-> None, outer |-> TRUE]
                  ELSE IF ~session
                  THEN [calls |-> fetched, data |-> Some(data), outer |-> TRUE]
                  ELSE IF ApologyFor(api) = None
                  THEN [calls |-> fetched \o posted, data |-> Some(data),
                        outer |-> FALSE]
                  ELSE [calls |-> fetched \o posted \o
                                  <<ChannelSend(m, ApologyFor(api)[1], s1)>>,
                        data |-> Some(data), outer |-> s1 # "ok"]
          IN  /\ msg_data' = inner.data
              /\ IF inner.outer
                 THEN /\ calls' = calls \o inner.calls \o
                            <<ChannelSend(m, ApologyUnexpected, s2)>>
                      /\ pc' = IF s2 = "ok" THEN "on_message.done"
                               ELSE "on_message.raised"
                      /\ raised' = IF s2 = "ok" THEN None ELSE Some(s2)
                 ELSE /\ calls' = calls \o inner.calls
                      /\ pc' = "on_message.done"
                      /\ raised' = None
    /\ UNCHANGED <<schema, event, nodes, visited, sleeps, attempt, retry_delay,
                   last_error, args, post_result, env, manager_bot,
                   DATABASE_AVAILABLE, mock_content_store, wellness_table,
                   wellnessVars, rotationVars, botVars, session>>

-----------------------------------------------------------------------------
(* services.discord_bot.DiscordBot: the connection of the instance, and the  *)
(* threads that send through it.  A thread calls send_message once, or runs  *)
(* one retry loop (send_reply.py:115-142; the loop of post_content calls     *)
(* send_message_sync the same way); the sleeps between the attempts are      *)
(* those of SendReply_attempt and are not repeated here.                     *)

\* What a step of the connection or of a sending thread leaves alone.
connectionFrame ==
    <<pc, schema, event, nodes, visited, raised, calls, sleeps, attempt,
      retry_delay, last_error, args, post_result, env, manager_bot,
      DATABASE_AVAILABLE, mock_content_store, wellness_table, wellnessVars,
      rotationVars, message, msg_data, discord_bot, thread_pc, thread_args,
      returned, creating_call>>

\* The instance get_discord_bot returns.
TheBot == bots[discord_bot[1]]

\* bot.start(token) has been called on the client.
ConnectionStarted == thread_starts > 0 \/ running

\* send_message_sync returned True: the loop returns (send_reply.py:121-135).
Loop_succeeded(t) ==
    [sender EXCEPT ![t] = [pc |-> "returned", attempt |-> @.attempt,
                           result |-> "True"]]

\* send_message_sync raised (discord_bot.py:182-185): the loop goes on to
\* the next attempt, or ends after the last one (send_reply.py:136-152).
Loop_failed(t) ==
    [sender EXCEPT ![t] =
        [pc |-> IF @.attempt + 1 < SendReply_max_retries
                THEN "retry" ELSE "exhausted",
         attempt |-> @.attempt + 1,
         result |-> "raised"]]

\* Mutant: test mode does not stop the call.
InTestMode_ignored(bot) == FALSE

\* discord_bot.py:88, 119: if self.test_mode
InTestMode(bot) == bot.test_mode

\* send_message_sync up to the wait (discord_bot.py:119-147): in test mode it
\* returns True at once; when the instance is not ready it starts bot.start
\* in a new thread and waits; otherwise it goes on to send.
send_message_sync(t) ==
    /\ discord_bot # None
    /\ sender[t].pc \in {"idle", "retry"}
    /\ IF InTestMode(TheBot)
       THEN /\ sender' = Loop_succeeded(t)
            /\ UNCHANGED thread_starts
       ELSE IF ~TheBot.is_ready
       THEN /\ thread_starts' = thread_starts + 1
            /\ sender' = [sender EXCEPT ![t].pc = "wait_for_ready"]
       ELSE /\ sender' = [sender EXCEPT ![t].pc = "get_and_send"]
            /\ UNCHANGED thread_starts
    /\ UNCHANGED <<bots, session, on_ready_handler, running, gateway,
                   delivered, fetches, connectionFrame>>

\* wait_for_ready(timeout_seconds=30) has returned (discord_bot.py:107-109,
\* 147-148): True when _ready_event is set, False after the timeout, upon
\* which send_message_sync raises.
wait_for_ready(t) ==
    /\ sender[t].pc = "wait_for_ready"
    /\ sender' = IF TheBot.ready_event
                 THEN [sender EXCEPT ![t].pc = "get_and_send"]
                 ELSE Loop_failed(t)
    /\ UNCHANGED <<bots, session, on_ready_handler, thread_starts, running,
                   gateway, delivered, fetches, connectionFrame>>

\* How get_and_send, run in the bot's loop, ends for the calling thread:
\* it returns True, it raises (the channel is not found, the send fails), or
\* future.result(timeout=30) gives up waiting for it.
SendAttempts == {"ok", "Channel not found", "TimeoutError"}

\* get_and_send and future.result(timeout=30) (discord_bot.py:151-180).  A
\* timeout of future.result does not cancel the coroutine: the message may
\* reach the channel after send_message_sync has raised (late).
get_and_send(t) ==
    /\ sender[t].pc = "get_and_send"
    /\ \E out \in SendAttempts, late \in BOOLEAN :
          /\ fetches' = fetches + 1
          /\ delivered' =
                [delivered EXCEPT ![t] =
                    IF out = "ok" \/ (out = "TimeoutError" /\ late)
                    THEN @ + 1 ELSE @]
          /\ sender' = IF out = "ok" THEN Loop_succeeded(t) ELSE Loop_failed(t)
    /\ UNCHANGED <<bots, session, on_ready_handler, thread_starts, running,
                   gateway, connectionFrame>>

\* How the fetch and the send of send_message end; they cannot work on a
\* client that was never started.
SendMessageOutcomes ==
    IF ConnectionStarted THEN {"ok", "Channel not found", "HTTPException"}
    ELSE {"Channel not found", "HTTPException"}

\* send_message (discord_bot.py:85-105): in test mode it returns at once;
\* otherwise it fetches the channel and sends, or raises.
send_message(t) ==
    /\ discord_bot # None
    /\ sender[t].pc = "idle"
    /\ IF InTestMode(TheBot)
       THEN /\ sender' = [sender EXCEPT ![t] =
                            [pc |-> "send_message.done", attempt |-> 0,
                             result |-> "None"]]
            /\ UNCHANGED <<fetches, delivered>>
       ELSE \E out \in SendMessageOutcomes :
            /\ fetches' = fetches + 1
            /\ delivered' = [delivered EXCEPT ![t] =
                                IF out = "ok" THEN @ + 1 ELSE @]
            /\ sender' = [sender EXCEPT ![t] =
                            [pc |-> "send_message.done", attempt |-> 0,
                             result |-> IF out = "ok" THEN "None"
                                        ELSE "raised"]]
    /\ UNCHANGED <<bots, session, on_ready_handler, thread_starts, running,
                   gateway, connectionFrame>>

\* run_bot (discord_bot.py:187-215), called by the lifespan of the process
\* that loads main.py (main.py:214-235): unless in test mode, bot.start.
run_bot ==
    /\ discord_bot # None
    /\ on_ready_handler = "main"
    /\ ~running
    /\ running' = ~TheBot.test_mode
    /\ UNCHANGED <<bots, session, on_ready_handler, thread_starts, gateway,
                   sender, delivered, fetches, connectionFrame>>

\* setup_events, on_connect (discord_bot.py:51-55)
setup_events_on_connect ==
    /\ ConnectionStarted
    /\ gateway = "closed"
    /\ gateway' = "connected"
    /\ bots' = [bots EXCEPT ![discord_bot[1]] =
                  [@ EXCEPT !.is_connected = TRUE, !.connected_event = TRUE]]
    /\ UNCHANGED <<session, on_ready_handler, thread_starts, running, sender,
                   delivered, fetches, connectionFrame>>

\* setup_events, on_disconnect (discord_bot.py:57-61)
setup_events_on_disconnect ==
    /\ gateway \in {"connected", "ready"}
    /\ gateway' = "closed"
    /\ bots' = [bots EXCEPT ![discord_bot[1]] =
                  [@ EXCEPT !.is_connected = FALSE, !.connected_event = FALSE]]
    /\ UNCHANGED <<session, on_ready_handler, thread_starts, running, sender,
                   delivered, fetches, connectionFrame>>

\* The client holds one coroutine per event name: bot.event stores it as the
\* attribute of that name, so the on_ready main.py registers (main.py:40-44)
\* takes the place of the one setup_events registered (discord_bot.py:63-67).
ReadyHandlerIsOwn(handler) == handler = "setup_events"

\* The client is ready and calls the on_ready it holds: the one of
\* setup_events (is_ready, _ready_event), or the one of main.py (session).
client_on_ready ==
    /\ gateway = "connected"
    /\ gateway' = "ready"
    /\ bots' = IF ReadyHandlerIsOwn(on_ready_handler)
               THEN [bots EXCEPT ![discord_bot[1]] =
                       [@ EXCEPT !.is_ready = TRUE, !.ready_event = TRUE]]
               ELSE bots
    /\ session' = IF on_ready_handler = "main" THEN TRUE ELSE session
    /\ UNCHANGED <<on_ready_handler, thread_starts, running, sender, delivered,
                   fetches, connectionFrame>>

-----------------------------------------------------------------------------
(* The caller has the result: the run's context and the call's locals are   *)
(* gone; the environment and the stores stay.                               *)

Return ==
    /\ pc \in {"done", "aborted", "rotation.done", "rotation.raised",
               "generate_and_post.done", "on_message.done",
               "on_message.raised"}
              \cup (IF gen = None THEN {"post_content.done"} ELSE {})
    /\ pc' = "idle"
    /\ schema' = NoSchema
    /\ event' = NoEvent
    /\ nodes' = EmptyDict
    /\ visited' = << >>
    /\ raised' = None
    /\ calls' = << >>
    /\ sleeps' = << >>
    /\ attempt' = 0
    /\ retry_delay' = 0
    /\ last_error' = None
    /\ args' = NoArgs
    /\ post_result' = None
    /\ gen' = None
    /\ gp_result' = None
    /\ previous_content' = << >>
    /\ next_content_type' = None
    /\ message' = NoMessage
    /\ msg_data' = None
    /\ UNCHANGED <<env, manager_bot, DATABASE_AVAILABLE, mock_content_store,
                   wellness_table, mock_content_id_counter, botVars, session>>

Next ==
    \/ \E sch \in Schemas, ev \in Events : Pipeline_run(sch, ev)
    \/ AnalyzeMessage_process
    \/ GenerateResponse_process
    \/ SendReply_process
    \/ SendReply_attempt
    \/ \E content \in Texts, channel_id \in {None} \cup {Some(c) : c \in ChannelStrs},
          content_id \in {None} \cup {Some(i) : i \in ContentIds} :
            post_content(content, channel_id, content_id)
    \/ post_content_attempt
    \/ Return

Spec == Init /\ [][Next]_vars

\* The wellness content flow: generate_and_post and post_content calls, one
\* after the other, on the stores the earlier ones left.
InitWellness ==
    /\ Idle
    /\ Environment
    /\ session = FALSE
    /\ mock_content_store = << >>
    /\ mock_content_id_counter = 1
    /\ wellness_table \in
          {EmptyDict,
           [i \in {"1"} |->
              Row(<<"h">>, "stress management", "42", TRUE, Some("utcnow"), 1)]}

NextWellness ==
    \/ \E channel_id \in {None, Some("42")},
          content_type \in {None, Some("breathwork technique")} :
            generate_and_post(channel_id, content_type)
    \/ generate_and_post_wellness_content
    \/ generate_and_post_return
    \/ \E content_id \in {Some(i) : i \in ContentIds} :
            post_content(<<"h">>, Some("42"), content_id)
    \/ post_content_attempt
    \/ Return

SpecWellness == InitWellness /\ [][NextWellness]_vars

\* The scheduled runs: the task every ten minutes, one run after the other,
\* on the channel of the environment and with no content type given.
NextSchedule ==
    \/ generate_and_post_wellness_content
    \/ generate_and_post_return
    \/ post_content_attempt
    \/ Return

SpecSchedule == InitWellness /\ [][NextSchedule]_vars

\* The threads of one process calling get_discord_bot, in any interleaving.
InitBot ==
    /\ Idle
    /\ Environment
    /\ session = FALSE
    /\ mock_content_store = << >>
    /\ mock_content_id_counter = 1
    /\ wellness_table = EmptyDict

NextBot ==
    \E t \in Threads :
        \/ \E token \in {None, Some("token")}, test_mode \in BOOLEAN :
              get_discord_bot(t, token, test_mode)
        \/ get_discord_bot_check(t)
        \/ get_discord_bot_create(t)
        \/ get_discord_bot_enable_test_mode(t)
        \/ get_discord_bot_return(t)
        \/ get_discord_bot_caller(t)

SpecBot == InitBot /\ [][NextBot]_vars

\* The chat boundary: the process that loads main.py, one message at a time.
InitBoundary ==
    /\ Idle
    /\ Environment
    /\ session = FALSE
    /\ mock_content_store = << >>
    /\ mock_content_id_counter = 1
    /\ wellness_table = EmptyDict

NextBoundary ==
    \/ on_ready
    \/ \E m \in Messages : on_message(m)
    \/ Return

SpecBoundary == InitBoundary /\ [][NextBoundary]_vars

\* One process after its first get_discord_bot call: the instance exists, in
\* test mode or not as that call chose; the process that loads main.py
\* (which calls get_discord_bot(TOKEN), main.py:34) has registered its own
\* on_ready.  Two threads send through the instance.
InitClient ==
    /\ Quiet
    /\ env = [DISCORD_BOT_TOKEN |-> TRUE, WELLNESS_CHANNEL_ID |-> Some("42")]
    /\ manager_bot = TRUE
    /\ DATABASE_AVAILABLE = TRUE
    /\ session = FALSE
    /\ mock_content_store = << >>
    /\ mock_content_id_counter = 1
    /\ wellness_table = EmptyDict
    /\ discord_bot = Some(1)
    /\ returned = {1}
    /\ \E test_mode \in BOOLEAN :
          /\ bots = [i \in {1} |->
                       IF test_mode THEN enable_test_mode(DiscordBot("token"))
                       ELSE DiscordBot("token")]
          /\ creating_call = [i \in {1} |->
                                [thread |-> "t1", test_mode |-> test_mode]]
          /\ on_ready_handler \in
                IF test_mode THEN {"setup_events"} ELSE {"setup_events", "main"}

NextClient ==
    \/ \E t \in Threads :
          \/ send_message(t)
          \/ send_message_sync(t)
          \/ wait_for_ready(t)
          \/ get_and_send(t)
    \/ run_bot
    \/ setup_events_on_connect
    \/ setup_events_on_disconnect
    \/ client_on_ready

SpecClient == InitClient /\ [][NextClient]_vars

\* The rotation test, run against every table of up to two rows.
RowTypes == ContentTypeValues \cup {UnknownType}

Rows(updated_at) ==
    {Row(<<"h">>, t, c, p, IF p THEN Some("utcnow") ELSE None, updated_at) :
        t \in RowTypes, c \in {"42", "7"}, p \in BOOLEAN}

Tables ==
    {EmptyDict}
    \cup {[i \in {"1"} |-> r] : r \in Rows(1)}
    \cup {[i \in {"1", "2"} |-> IF i = "1" THEN r1 ELSE r2] :
            r1 \in Rows(1), r2 \in Rows(2)}
    \cup {[i \in {"1", "2"} |-> IF i = "1" THEN r1 ELSE r2] :
            r1 \in Rows(2), r2 \in Rows(1)}

InitRotation ==
    /\ Idle
    /\ Environment
    /\ session = FALSE
    /\ mock_content_store = << >>
    /\ mock_content_id_counter = 1
    /\ wellness_table \in Tables

NextRotation ==
    \/ test_content_type_rotation
    \/ Return

SpecRotation == InitRotation /\ [][NextRotation]_vars

-----------------------------------------------------------------------------
(* Vocabulary of the properties *)

\* The SendReply entry of the context.
SR == nodes["SendReply"].response_model

HasUpstream == {"AnalyzeMessage", "GenerateResponse"} \subseteq DOMAIN nodes

Intent == nodes["AnalyzeMessage"].response_model.intent

Reply == nodes["GenerateResponse"].response_model.response

\* Empty or whitespace only.
Blank(t) == \A i \in 1..Len(t) : t[i] = " "

\* How the send_message_sync calls made so far ended, in order.
SendResults ==
    LET s == SelectSeq(calls, LAMBDA c : c.kind = "send")
    IN  [i \in 1..Len(s) |-> s[i].result]

AllFail(r) == \A i \in 1..Len(r) : r[i] # "ok"

\* N failures and then a success.
FailsThenOk(r) ==
    r # << >> /\ r[Len(r)] = "ok" /\ AllFail(SubSeq(r, 1, Len(r) - 1))

\* SendReply.process has returned in a run whose context asks for delivery:
\* both upstream entries are there, the intent is not "ignore" and the reply
\* is not blank.
ReplyDue ==
    /\ pc = "done"
    /\ HasUpstream
    /\ Intent # "ignore"
    /\ ~Blank(Reply)

\* post_content has returned from a call that asks for delivery: the content
\* is not blank, a channel id is known and int() accepts it, and the manager
\* holds a bot.
PostDue ==
    /\ pc = "post_content.done"
    /\ ~Blank(args.content)
    /\ args.channel_id # None
    /\ IsIntLiteral(args.channel_id[1])
    /\ manager_bot

-----------------------------------------------------------------------------
(* Properties *)

\* C1 (retry bound): no process or post_content call makes more than 3 calls
\* to send_message_sync; and when delivery is due, the call ends either with
\* success right after the first successful call, the N in 0..2 calls before
\* it having failed (N+1 calls in all), or with failure after 3 failed calls.
\* So against a capability that fails N <= 2 times and then succeeds it ends
\* with success after exactly N+1 calls.
C1_RetryBound ==
    /\ Len(SendResults) <= 3
    /\ ReplyDue =>
          \/ FailsThenOk(SendResults) /\ SR.success
          \/ AllFail(SendResults) /\ Len(SendResults) = 3 /\ ~SR.success
    /\ PostDue =>
          \/ FailsThenOk(SendResults) /\ post_result[1].success
          \/ AllFail(SendResults) /\ Len(SendResults) = 3
                /\ ~post_result[1].success

\* Two failures and then a success: three calls, success.
C1_Witness ==
    /\ ReplyDue
    /\ Len(SendResults) = 3
    /\ SR.success

\* C2 (retry exhaustion): in a pipeline run, the sleeps made so far are 1
\* after the first failed attempt and 2 after the second, none before the
\* first attempt and none after the third; and when every attempt has failed
\* SendReply has made exactly 3, and records success=false with an
\* error_message that embeds the error of the third.
C2_RetryExhaustion ==
    /\ pc \in NodeNames \cup {"SendReply.retry", "done", "aborted"} =>
          LET f == Cardinality({i \in 1..Len(SendResults) : SendResults[i] # "ok"})
          IN  sleeps = SubSeq(<<1, 2>>, 1, IF f < 2 THEN f ELSE 2)
    /\ (ReplyDue /\ AllFail(SendResults)) =>
          /\ Len(SendResults) = 3
          /\ sleeps = <<1, 2>>
          /\ SR.success = FALSE
          /\ Len(SR.error_message) = 4
          /\ SR.error_message[4] = SendResults[3]

\* Three failures whose last error differs from the first two.
C2_Witness ==
    /\ ReplyDue
    /\ SendResults = <<"Channel not found", "Channel not found",
                       "Bot failed to start and become ready">>
    /\ ~SR.success

\* C3 as stated (worst-case backoff total): when all three attempts fail the
\* loop has slept 7 time units, the intervals 1, 2 and 4.
C3_Original ==
    ((ReplyDue \/ PostDue) /\ AllFail(SendResults)) =>
        sleeps = <<1, 2, 4>> /\ SumSeq(sleeps) = 7

\* C3 as amended: when all three attempts fail, the retry loop of the
\* delivery node (and of post_content) has slept 3 time units in all, the
\* intervals 1 and 2; there is no sleep after the last attempt.
C3_BackoffTotal ==
    ((ReplyDue \/ PostDue) /\ AllFail(SendResults)) =>
        /\ SumSeq(sleeps) = 3
        /\ Len(sleeps) = 2
        /\ sleeps[1] = 1
        /\ sleeps[2] = 2

C3_Witness ==
    /\ PostDue
    /\ Len(SendResults) = 3
    /\ AllFail(SendResults)

Range(q) == {q[i] : i \in 1..Len(q)}

IgnoredMessage == <<"Message ignored as per intent">>

\* C4 (gate): whenever the context holds the upstream entries and the
\* AnalyzeMessage intent is "ignore", whatever the generated reply,
\* SendReply.process never enters the retry loop, no delivery call and no
\* sleep is made, and the result it records is success=true with the message
\* "Message ignored as per intent".
C4_Gate ==
    (HasUpstream /\ Intent = "ignore") =>
        /\ pc # "SendReply.retry"
        /\ Len(SendResults) = 0
        /\ sleeps = << >>
        /\ pc = "done" =>
              /\ "SendReply" \in DOMAIN nodes
              /\ SR.success = TRUE
              /\ SR.error_message = IgnoredMessage

\* The model classified a user's message as "ignore", with a reply generated.
C4_Witness ==
    /\ pc = "done"
    /\ HasUpstream
    /\ Intent = "ignore"
    /\ event.author_id = UserId
    /\ ~Blank(Reply)
    /\ SR.success

NoBlankSend ==
    \A i \in 1..Len(calls) :
        calls[i].kind = "send" => ~Blank(calls[i].text[1])

EmptyContentGuard ==
    (pc = "post_content.done" /\ Blank(args.content)) =>
        /\ Len(SendResults) = 0
        /\ sleeps = << >>
        /\ post_result[1].success = FALSE
        /\ post_result[1].error_message = <<"Empty content received">>

\* C5 as stated (empty-payload guard): a blank reply or content never
\* reaches send_message_sync, and the result recorded is success=false with
\* the empty response/content message, without any sleep.
C5_Original ==
    /\ NoBlankSend
    /\ EmptyContentGuard
    /\ (pc = "done" /\ HasUpstream /\ Blank(Reply)) =>
          /\ Len(SendResults) = 0
          /\ sleeps = << >>
          /\ SR.success = FALSE
          /\ SR.error_message = <<"Empty response received">>

\* C5 as amended: a blank reply or content never reaches send_message_sync
\* and causes no sleep; post_content returns success=false with "Empty
\* content received"; SendReply records success=false with "Empty response
\* received" unless the intent is "ignore", in which case the gate has
\* already recorded success=true with "Message ignored as per intent".
C5_EmptyPayloadGuard ==
    /\ NoBlankSend
    /\ EmptyContentGuard
    /\ (pc = "done" /\ HasUpstream /\ Blank(Reply)) =>
          /\ Len(SendResults) = 0
          /\ sleeps = << >>
          /\ IF Intent = "ignore"
             THEN SR.success = TRUE /\ SR.error_message = IgnoredMessage
             ELSE /\ SR.success = FALSE
                  /\ SR.error_message = <<"Empty response received">>

\* A whitespace-only reply to a message that is not ignored.
C5_Witness ==
    /\ pc = "done"
    /\ HasUpstream
    /\ Reply = <<" ">>
    /\ Intent # "ignore"
    /\ ~SR.success

\* C6 (scenario): in a MessagePipeline run on an event written by the bot
\* itself, AnalyzeMessage makes no external call, in particular none to the
\* completion capability, and always records intent "ignore" with
\* confidence 1.0; no delivery call and no sleep is ever made in the run;
\* and the SendReply entry of the completed run is success=true with the
\* message "Message ignored as per intent".
C6_BotAuthorScenario ==
    (schema = MessagePipelineSchema /\ event.author_id = BotId) =>
        /\ CallsOf("AnalyzeMessage", "llm") = {}
        /\ CallsOf("AnalyzeMessage", "db") = {}
        /\ "AnalyzeMessage" \in Range(visited) =>
              /\ "AnalyzeMessage" \in DOMAIN nodes
              /\ Intent = "ignore"
              /\ nodes["AnalyzeMessage"].response_model.confidence = 10
        /\ Len(SendResults) = 0
        /\ sleeps = << >>
        /\ pc = "done" =>
              /\ "SendReply" \in DOMAIN nodes
              /\ SR.success = TRUE
              /\ SR.error_message = IgnoredMessage

C6_Witness ==
    /\ pc = "done"
    /\ schema = MessagePipelineSchema
    /\ event.author_id = BotId
    /\ SR.error_message = IgnoredMessage

\* C7 (delivery failure is reported, not fatal): no run is ever aborted by
\* SendReply, whatever the context (upstream entries missing included) and
\* however delivery behaves; once SendReply.process has been invoked it is
\* either still retrying or has returned, with a result under "SendReply"
\* that has a boolean success flag and, on failure, an error message.
C7_NeverRaises ==
    /\ pc = "aborted" => visited[Len(visited)] # "SendReply"
    /\ "SendReply" \in Range(visited) =>
          /\ raised = None
          /\ pc \in {"SendReply.retry", "done"}
          /\ pc = "done" =>
                /\ "SendReply" \in DOMAIN nodes
                /\ SR.success \in BOOLEAN
                /\ ~SR.success => SR.error_message # None

\* A completed run whose three delivery attempts all failed.
C7_Witness ==
    /\ pc = "done"
    /\ schema = MessagePipelineSchema
    /\ Len(SendResults) = 3
    /\ ~SR.success
    /\ raised = None

\* GenerateResponse.process has ended without the AnalyzeMessage entry.
GenerateMisconfigured ==
    /\ "GenerateResponse" \in Range(visited)
    /\ pc # "GenerateResponse"
    /\ "AnalyzeMessage" \notin DOMAIN nodes

\* SendReply.process has ended without one of its upstream entries.
SendMisconfigured ==
    /\ "SendReply" \in Range(visited)
    /\ pc \notin {"SendReply", "SendReply.retry"}
    /\ ~HasUpstream

Once(n) == Cardinality({i \in 1..Len(visited) : visited[i] = n}) = 1

C9_Original ==
    (pc = "done" /\ schema = MessagePipelineSchema) =>
        /\ NodeNames \subseteq DOMAIN nodes
        /\ SR.channel_id = Some(event.channel_id)

\* C9 as amended: the context of every completed MessagePipeline run holds
\* the three entries; the SendReply entry's channel_id is the event's
\* channel_id when the reply was delivered (a send_message_sync call
\* succeeded), together with the reply sent, and is null in every other
\* result (ignored intent, empty reply, all attempts failed).
C9_RoundTrip ==
    (pc = "done" /\ schema = MessagePipelineSchema) =>
        /\ NodeNames \subseteq DOMAIN nodes
        /\ IF SendResults # << >> /\ SendResults[Len(SendResults)] = "ok"
           THEN /\ SR.success
                /\ SR.channel_id = Some(event.channel_id)
                /\ SR.message_sent = Some(Reply)
                /\ calls[Len(calls)].chan = Some(event.channel_id)
           ELSE /\ SR.channel_id = None
                /\ SR.message_sent = None

C9_Witness ==
    /\ pc = "done"
    /\ schema = MessagePipelineSchema
    /\ event.channel_id = 7
    /\ SR.channel_id = Some(7)

MessagePipelineOrder == <<"AnalyzeMessage", "GenerateResponse", "SendReply">>

\* C10 (execution order): a MessagePipeline run invokes AnalyzeMessage, then
\* GenerateResponse, then SendReply, each at most once and, in a run that
\* completes, each exactly once; and a node is invoked only when every node
\* connected to it has executed and written its entry.
C10_ExecutionOrder ==
    schema = MessagePipelineSchema =>
        /\ Len(visited) <= 3
        /\ \A i \in 1..Len(visited) : visited[i] = MessagePipelineOrder[i]
        /\ pc \in NodeNames => pc = MessagePipelineOrder[Len(visited) + 1]
        /\ pc = "done" => visited = MessagePipelineOrder
        /\ \A i \in 1..Len(visited) : \A p \in NodeNames :
              visited[i] \in Range(schema.connections[p]) =>
                  /\ p \in DOMAIN nodes
                  /\ \E j \in 1..(i - 1) : visited[j] = p

C10_Witness ==
    /\ pc = "done"
    /\ schema = MessagePipelineSchema
    /\ visited = MessagePipelineOrder
    /\ NodeNames \subseteq DOMAIN nodes

\* The nodes whose process returned (a process that raised is the last one
\* invoked).
Completed ==
    IF pc = "aborted" THEN Range(SubSeq(visited, 1, Len(visited) - 1))
    ELSE IF pc \in NodeNames \cup {"done"} THEN Range(visited)
    ELSE Range(visited) \ {"SendReply"}

\* C11 (result coverage): the nodes mapping never has an entry for a node
\* that was not invoked; at the end of every run it has an entry for exactly
\* the nodes whose process returned: every node invoked in a run that
\* completes, and in an aborted run every node invoked but the one that
\* raised, which leaves no entry.
C11_ResultCoverage ==
    /\ DOMAIN nodes = Completed
    /\ pc = "done" => DOMAIN nodes = Range(visited)
    /\ pc = "aborted" =>
          /\ visited # << >>
          /\ visited[Len(visited)] \notin DOMAIN nodes
          /\ DOMAIN nodes = Range(visited) \ {visited[Len(visited)]}

\* GenerateResponse raised after AnalyzeMessage had written its entry.
C11_Witness ==
    /\ pc = "aborted"
    /\ visited = <<"AnalyzeMessage", "GenerateResponse">>
    /\ DOMAIN nodes = {"AnalyzeMessage"}
    /\ raised = Some("semantic search failed")

\* The node whose process is executing.
Executing == IF pc = "SendReply.retry" THEN "SendReply" ELSE pc

\* A step of a node's process keeps the event and the entries there are, and
\* adds at most the executing node's own key, exactly that one on return.
AppendOnlyStep ==
    pc \in NodeNames \cup {"SendReply.retry"} =>
        /\ event' = event
        /\ \A k \in DOMAIN nodes : k \in DOMAIN nodes' /\ nodes'[k] = nodes[k]
        /\ (DOMAIN nodes') \ (DOMAIN nodes) \subseteq {Executing}
        /\ pc' \in (NodeNames \cup {"done"}) =>
              (DOMAIN nodes') \ (DOMAIN nodes) = {Executing}

\* C12 (append-only context): in every step of a node's process (the retry
\* and error paths of SendReply included) the event and every entry already
\* in the nodes mapping stay as they are, no key is removed, and the only
\* key that may appear is the executing node's own; a process that returns
\* has added exactly that one key.
C12_AppendOnly == [][AppendOnlyStep]_vars

\* A completed run in which SendReply retried once before it wrote its entry.
C12_Witness ==
    /\ pc = "done"
    /\ DOMAIN nodes = NodeNames
    /\ sleeps = <<1>>
    /\ SendResults = <<"Channel not found", "ok">>


\* The calls a node has made, in order, and their kinds.
CallsBy(n) == SelectSeq(calls, LAMBDA c : c.by = n)

Kinds(s) == [i \in 1..Len(s) |-> s[i].kind]

IsPrefix(s, t) == Len(s) <= Len(t) /\ s = SubSeq(t, 1, Len(s))

\* C19 as stated (side-effect budget): every node's process makes at most
\* one external call per invocation.
C19_Original ==
    \A n \in NodeNames : Len(CallsBy(n)) <= 1

\* C19 as amended: per invocation, AnalyzeMessage makes at most two external
\* calls (one persistence read, then one model completion; none for the
\* bot's own message), GenerateResponse at most three (one persistence read,
\* one retrieval search, one model completion, in that order) and SendReply
\* at most three, all of them delivery calls; a call that raises is the
\* last one AnalyzeMessage or GenerateResponse makes.
C19_SideEffectBudget ==
    /\ IsPrefix(Kinds(CallsBy("AnalyzeMessage")), <<"db", "llm">>)
    /\ IsPrefix(Kinds(CallsBy("GenerateResponse")), <<"db", "kb", "llm">>)
    /\ Len(CallsBy("SendReply")) <= 3
    /\ \A i \in 1..Len(CallsBy("SendReply")) : CallsBy("SendReply")[i].kind = "send"
    /\ \A n \in {"AnalyzeMessage", "GenerateResponse"} :
          \A i \in 1..(Len(CallsBy(n)) - 1) : CallsBy(n)[i].result = "ok"
    /\ event.author_id = BotId => CallsBy("AnalyzeMessage") = << >>

\* A completed run that used every call of the three budgets.
C19_Witness ==
    /\ pc = "done"
    /\ Len(CallsBy("AnalyzeMessage")) = 2
    /\ Len(CallsBy("GenerateResponse")) = 3
    /\ Len(CallsBy("SendReply")) = 3

\* The completion calls that raised.
FailedCompletions ==
    {i \in 1..Len(calls) : calls[i].kind = "llm" /\ calls[i].result # "ok"}

\* C20 (single-shot completion): in a run, AnalyzeMessage and
\* GenerateResponse each call the completion capability at most once; when
\* that call raises it is the last external call of the run (no retry, no
\* delivery attempt), the node that made it is the last one invoked and has
\* no entry, and the run is aborted with the completion's error surfaced.
C20_SingleShot ==
    /\ \A n \in {"AnalyzeMessage", "GenerateResponse"} :
          Cardinality(CallsOf(n, "llm")) <= 1
    /\ CallsOf("SendReply", "llm") = {}
    /\ \A i \in FailedCompletions :
          /\ i = Len(calls)
          /\ pc = "aborted"
          /\ raised = Some(calls[i].result)
          /\ visited[Len(visited)] = calls[i].by
          /\ calls[i].by \notin DOMAIN nodes
          /\ Len(SendResults) = 0
          /\ sleeps = << >>

\* The classification completion raised.
C20_Witness ==
    /\ pc = "aborted"
    /\ visited = <<"AnalyzeMessage">>
    /\ FailedCompletions = {2}
    /\ raised = Some("completion failed")


\* The type that follows each type in the rotation.
RotationTable ==
    [t \in {"meditation tip", "weekly challenge", "mindfulness practice",
            "emotional wellness", "somatic exercise", "breathwork technique",
            "sleep optimization", "gratitude practice", "boundary setting",
            "stress management"} |->
        CASE t = "meditation tip" -> "weekly challenge"
          [] t = "weekly challenge" -> "mindfulness practice"
          [] t = "mindfulness practice" -> "emotional wellness"
          [] t = "emotional wellness" -> "somatic exercise"
          [] t = "somatic exercise" -> "breathwork technique"
          [] t = "breathwork technique" -> "sleep optimization"
          [] t = "sleep optimization" -> "gratitude practice"
          [] t = "gratitude practice" -> "boundary setting"
          [] t = "boundary setting" -> "stress management"
          [] t = "stress management" -> "meditation tip"]

RowFlagChanged(i) ==
    /\ i \in DOMAIN wellness_table'
    /\ <<wellness_table'[i].posted, wellness_table'[i].posted_at>> #
          <<wellness_table[i].posted, wellness_table[i].posted_at>>

ItemFlagChanged(k) ==
    /\ k <= Len(mock_content_store')
    /\ <<mock_content_store'[k].posted, mock_content_store'[k].posted_at>> #
          <<mock_content_store[k].posted, mock_content_store[k].posted_at>>

\* A step that changes a flag is the iteration of post_content's loop in
\* which send_message_sync succeeded for the content of the call; it ends the
\* call with success, and marks only records of the call's content_id.
FlagFollowsDelivery ==
    ((\E i \in DOMAIN wellness_table : RowFlagChanged(i))
        \/ (\E k \in 1..Len(mock_content_store) : ItemFlagChanged(k))) =>
        /\ pc = "post_content.retry"
        /\ pc' = "post_content.done"
        /\ Len(calls') > Len(calls)
        /\ calls'[Len(calls) + 1] =
              Call("post_content", "send", Some(int(args.channel_id[1])),
                   Some(args.content), "ok")
        /\ ~Blank(args.content)
        /\ manager_bot
        /\ post_result'[1].success
        /\ \A i \in DOMAIN wellness_table :
              RowFlagChanged(i) =>
                  Some(i) = args.content_id /\ wellness_table'[i].posted
        /\ \A k \in 1..Len(mock_content_store) :
              ItemFlagChanged(k) =>
                  /\ Some(mock_content_store[k].id) = args.content_id
                  /\ mock_content_store'[k].posted

\* C15 (posted flag follows delivery): the posted flag and posted timestamp
\* of a stored record change only in the step of post_content in which
\* send_message_sync has just succeeded for the call's content, which
\* returns success; so a call that ends on empty content, on a missing
\* channel or bot, or with all three attempts failed changes no record's
\* flag.
C15_PostedFollowsDelivery == [][FlagFollowsDelivery]_vars

\* The row generate_and_post stored is marked after a failed and then a
\* successful attempt.
C15_Witness ==
    /\ pc = "post_content.done"
    /\ gen # None
    /\ mock_content_store = << >>
    /\ gen[1].id \in DOMAIN wellness_table
    /\ wellness_table[gen[1].id].posted
    /\ SendResults = <<"Channel not found", "ok">>

\* generate_and_post has returned from a call in which no completion
\* failed and the persistence capability was unavailable or raised when the
\* content was to be stored.
StorageDegraded ==
    /\ pc = "generate_and_post.done"
    /\ \A i \in 1..Len(calls) : calls[i].kind = "llm" => calls[i].result = "ok"
    /\ \/ ~DATABASE_AVAILABLE
       \/ \E i \in 1..Len(calls) :
             calls[i].by = "store_content" /\ calls[i].result # "ok"

\* C16 as stated (degrade rather than fail): when the persistence
\* capability raises or is unavailable, the generated content is in the
\* in-memory store under the id store_content returned, and
\* generate_and_post has gone on to post it.
C16_Original ==
    StorageDegraded =>
        /\ gen # None
        /\ \E k \in 1..Len(mock_content_store) :
              /\ mock_content_store[k].id = gen[1].id
              /\ mock_content_store[k].content = gen[1].content
        /\ args.content = gen[1].content
        /\ args.content_id = Some(gen[1].id)
        /\ post_result # None
        /\ gp_result[1].success = post_result[1].success


\* C14 as stated (singleton client): over any interleaving of
\* get_discord_bot calls, at most one DiscordBot is ever constructed and
\* every call returns the same instance.
C14_Original ==
    /\ Cardinality(DOMAIN bots) <= 1
    /\ Cardinality(returned) <= 1


\* on_message has ended, by returning or by raising.
BoundaryEnded == pc \in {"on_message.done", "on_message.raised"}

\* The calls on_message made, by kind.
Boundary(kind) == SelectSeq(calls, LAMBDA c : c.by = "on_message" /\ c.kind = kind)

Delivered(s) == {i \in 1..Len(s) : s[i].result = "ok"}

FetchFailed ==
    /\ BoundaryEnded
    /\ Boundary("fetch") # << >>
    /\ Boundary("fetch")[1].result \in {"NotFound", "Forbidden", "HTTPException"}

\* C18 (referenced-message fetch errors are not fatal): when fetch_message
\* fails with not-found, forbidden or an HTTP error, on_message builds the
\* event with the four referenced_message_* fields null and, having a
\* session, submits exactly that event; no apology is due to the failure:
\* none is sent when the API answers 200 or 202, and one that is sent is the
\* one the API's answer (or the missing session) calls for.
C18_FetchNotFatal ==
    FetchFailed =>
        LET sends == Boundary("channel.send") IN
        /\ msg_data # None
        /\ msg_data[1].referenced_message_id = None
        /\ msg_data[1].referenced_message_author_id = None
        /\ msg_data[1].referenced_message_author_name = None
        /\ msg_data[1].referenced_message_content = None
        /\ msg_data[1].channel_id = message.channel_id
        /\ session =>
              /\ Len(Boundary("post")) = 1
              /\ Boundary("post")[1].text = msg_data
              /\ Boundary("post")[1].result \in {"200", "202"} =>
                    sends = << >> /\ pc = "on_message.done"
              /\ sends # << >> =>
                    Some(sends[1].text[1]) = ApologyFor(Boundary("post")[1].result)
        /\ ~session =>
              /\ Boundary("post") = << >>
              /\ Len(sends) = 1
              /\ sends[1].text = Some(ApologyUnexpected)

\* The fetch failed with an HTTP error and the API accepted the event.
C18_Witness ==
    /\ FetchFailed
    /\ Boundary("fetch")[1].result = "HTTPException"
    /\ Len(Boundary("post")) = 1
    /\ Boundary("post")[1].result = "202"
    /\ Boundary("post")[1].text[1].referenced_message_content = None
    /\ Boundary("channel.send") = << >>

\* generate_and_post (or the scheduled task, which returns its dict) has
\* returned.
TaskReturned == pc = "generate_and_post.done"

\* The four kinds of failure a generate_and_post call can meet.
HistoryReadFailed ==
    \E i \in 1..Len(calls) :
        calls[i].by = "get_previous_content" /\ calls[i].result # "ok"

CompletionFailed ==
    \E i \in 1..Len(calls) : calls[i].kind = "llm" /\ calls[i].result # "ok"

StorageFailed ==
    \E i \in 1..Len(calls) :
        calls[i].by = "store_content" /\ calls[i].result # "ok"

DeliveryFailed == SendResults # << >> /\ AllFail(SendResults)

\* C22 (the scheduled operation never raises): no exception leaves
\* generate_and_post or the scheduled task, whatever fails (history read,
\* completion, storage, delivery, missing database modules); what they
\* return is a record whose success field is a boolean, which carries an
\* error_message when success is false, and whose posted_at, when the
\* record has one, is non-null only when success is true.
C22_NeverRaises ==
    /\ raised = None
    /\ TaskReturned =>
          /\ gp_result # None
          /\ gp_result[1].success \in BOOLEAN
          /\ (~gp_result[1].success) => gp_result[1].error_message # None
          /\ ("posted_at" \in DOMAIN gp_result[1]
                /\ gp_result[1].posted_at # None) => gp_result[1].success

\* The storage session failed, the content went to the in-memory store, and
\* then all three delivery attempts failed: the dict reports failure.
C22_Witness ==
    /\ TaskReturned
    /\ StorageFailed
    /\ DeliveryFailed
    /\ Len(SendResults) = 3
    /\ ~gp_result[1].success
    /\ gp_result[1].posted_at = None
    /\ gp_result[1].error_message # None

\* The record the returned call's store_content wrote is marked posted, in
\* the store that holds it.
StoredRecordPosted ==
    IF StorageFailed
    THEN \E k \in 1..Len(mock_content_store) :
            /\ mock_content_store[k].id = gen[1].id
            /\ mock_content_store[k].content_type = gen[1].content_type
            /\ mock_content_store[k].posted
    ELSE /\ gen[1].id \in DOMAIN wellness_table
         /\ wellness_table[gen[1].id].posted

\* C28 as stated (success implies posted): whenever generate_and_post
\* returns success=true, the record its store_content wrote is marked
\* posted=true in the store that holds it, also when store_content fell back
\* to the in-memory store.
C28_Original ==
    (TaskReturned /\ gp_result[1].success) => StoredRecordPosted

\* The type a run starting now on the channel of the returned run would
\* take from the rotation, its history reads working.
NextRunChoice ==
    determine_content_type(
        get_previous_content(wellness_table, Some(gen[1].channel_id), "ok"))

\* The type after t in the rotation order, wrapping.
Successor(t) == ContentType[NextIndex(IndexOf(t))]

\* C29 as stated (rotation across runs): after a scheduled run whose
\* delivery succeeded, the next scheduled run on that channel chooses the
\* successor of that run's content type.
C29_Original ==
    (TaskReturned /\ gp_result[1].success) =>
        NextRunChoice = Successor(gen[1].content_type)

\* What a retry loop that consumed the failure pattern r is to have done:
\* it stopped at the first success or after the third failure, slept 1 and
\* then 2 after the first two failures, and reports whether the last call
\* succeeded.
Failures(r) == Cardinality({i \in 1..Len(r) : r[i] # "ok"})

LoopOutcome(r) ==
    [stopped |-> FailsThenOk(r) \/ (AllFail(r) /\ Len(r) = 3),
     sleeps |-> SubSeq(<<1, 2>>, 1, IF Failures(r) < 2 THEN Failures(r) ELSE 2),
     success |-> r # << >> /\ r[Len(r)] = "ok"]

\* What the returned loop did, as a function of the pattern it met.
ObservedLoop(success) ==
    [stopped |-> TRUE, sleeps |-> sleeps, success |-> success]

\* post_content has returned from a call that entered its retry loop: the
\* content is not blank, a channel id is known and the manager holds a bot.
PostLooped ==
    /\ pc = "post_content.done"
    /\ ~Blank(args.content)
    /\ args.channel_id # None
    /\ manager_bot

\* C27 as stated (the two retry loops are equivalent): for every failure
\* pattern of the delivery capability on a non-empty payload, the two loops
\* make the same number of send_message_sync calls, sleep the same intervals
\* and report the same success flag.
C27_Original ==
    /\ ReplyDue =>
          ObservedLoop(SR.success) = LoopOutcome(SendResults)
    /\ PostLooped =>
          ObservedLoop(post_result[1].success) = LoopOutcome(SendResults)

\* C27 as amended: the two loops are equivalent when the channel id
\* post_content holds is one int() accepts: both stop at the first
\* successful call or after the third failed one, sleep 1 and then 2 after
\* the first two failures, and report success exactly when the last call
\* succeeded.  With a channel id int() rejects, post_content makes no call
\* at all, sleeps 1 and 2 and reports failure, which no failure pattern makes
\* SendReply.process do.
C27_LoopEquivalence ==
    /\ ReplyDue =>
          ObservedLoop(SR.success) = LoopOutcome(SendResults)
    /\ PostDue =>
          ObservedLoop(post_result[1].success) = LoopOutcome(SendResults)
    /\ (PostLooped /\ ~PostDue) =>
          /\ SendResults = << >>
          /\ sleeps = <<1, 2>>
          /\ ~post_result[1].success
    /\ ReplyDue => SendResults # << >>

\* post_content met the pattern "fail, fail, succeed": three calls, sleeps
\* of 1 and 2, success.
C27_Witness ==
    /\ PostDue
    /\ SendResults = <<"Channel not found", "Channel not found", "ok">>
    /\ sleeps = <<1, 2>>
    /\ post_result[1].success

\* C24 as stated (no self-triggered messages): on_message, called with a
\* message the bot itself authored, sends nothing to the channel, whatever
\* the API endpoint does.
C24_Original ==
    (BoundaryEnded /\ message.author_id = BotId) =>
        Boundary("channel.send") = << >>

\* A thread's call has returned: send_message_sync with True to its loop,
\* or send_message with None.
SendReturned(t) ==
    \/ sender[t].pc = "returned" /\ sender[t].result = "True"
    \/ sender[t].pc = "send_message.done" /\ sender[t].result = "None"

\* C21 (test mode prevents Discord calls): with the instance in test mode,
\* every send_message and send_message_sync call returns (send_message_sync
\* with True, at the first attempt of its loop) and none raises; no channel
\* is fetched, nothing reaches a channel, bot.start is never called, so no
\* connection event fires, and is_ready and is_connected stay true.
C21_TestMode ==
    (discord_bot # None /\ TheBot.test_mode) =>
        /\ \A t \in Threads :
              /\ sender[t].pc \in {"idle", "returned", "send_message.done"}
              /\ sender[t].pc # "idle" => SendReturned(t)
              /\ sender[t].attempt = 0
              /\ delivered[t] = 0
        /\ fetches = 0
        /\ ~ConnectionStarted
        /\ gateway = "closed"
        /\ TheBot.is_ready
        /\ TheBot.is_connected

\* In test mode one thread's send_message_sync and the other's send_message
\* have returned.
C21_Witness ==
    /\ TheBot.test_mode
    /\ sender["t1"].pc = "returned"
    /\ sender["t1"].result = "True"
    /\ sender["t2"].pc = "send_message.done"
    /\ sender["t2"].result = "None"
    /\ fetches = 0

\* C23 as stated (at-most-once delivery): within one retry loop the message
\* reaches the channel at most once, for every failure pattern of delivery.
C23_Original == \A t \in Threads : delivered[t] <= 1

\* C25 as stated (single connection start): for one DiscordBot instance,
\* send_message_sync starts the bot connection at most once over all calls,
\* the retries of one loop and concurrent sends included.
C25_Original == thread_starts <= 1

\* C26 as stated (readiness tracking): once the client has fired its ready
\* event, is_ready is true and wait_for_ready returns true, also in the
\* process that loads main.py.
C26_Original ==
    gateway = "ready" => TheBot.is_ready /\ TheBot.ready_event

\* ---------------------------------------------------------------------
\* C30: the arguments of get_discord_bot

\* The call that constructed instance id has run past its enable_test_mode.
CreatingCallDone(id) ==
    thread_pc[creating_call[id].thread] # "enable_test_mode"

\* Every instance has the test mode the call that constructed it chose.
TestModeAsCreated ==
    \A id \in DOMAIN bots :
        CreatingCallDone(id) =>
            bots[id].test_mode = creating_call[id].test_mode

\* C30: a get_discord_bot call raises ValueError only when it has no
\* token, and such a call never constructs an instance; only a call that
\* constructs the instance enables test mode, and only when it asked for
\* it; an instance keeps the token it was constructed with; and, where the
\* constructing calls did not overlap (one instance was constructed), the
\* instance has exactly the test mode its constructing call chose,
\* whatever the arguments of the calls that found it.
C30_SingletonArguments ==
    /\ \A t \in Threads :
          /\ thread_pc[t] = "raised" => thread_args[t].token = None
          /\ thread_pc[t] \in {"create", "enable_test_mode"} =>
                thread_args[t].token # None
          /\ thread_pc[t] = "enable_test_mode" =>
                /\ thread_args[t].test_mode
                /\ \E id \in DOMAIN bots : creating_call[id].thread = t
    /\ DOMAIN creating_call = DOMAIN bots
    /\ \A id \in DOMAIN bots : bots[id].token = "token"
    /\ Cardinality(DOMAIN bots) = 1 => TestModeAsCreated

\* One instance, constructed in test mode by t1, has been returned to t2,
\* whose call passed no token and did not ask for test mode.
C30_Witness ==
    /\ DOMAIN bots = {1}
    /\ creating_call[1] = [thread |-> "t1", test_mode |-> TRUE]
    /\ bots[1].test_mode
    /\ thread_pc["t1"] = "idle"
    /\ thread_pc["t2"] = "returned"
    /\ thread_args["t2"] = [token |-> None, test_mode |-> FALSE]

====
